---------------------------- MODULE Spec2Model ----------------------------
(***************************************************************************)
(* kappanhang: the CI-V controller (civControlStruct) as a state machine.  *)
(*                                                                         *)
(* Time is in milliseconds.  A byte is a number in 0..255, a packet is a   *)
(* sequence of bytes.  Go slices are 0-based: At(d, i) is d[i] and         *)
(* From(d, i) is d[i:].                                                    *)
(*                                                                         *)
(* Every method of civControlStruct is an operator from a world record w   *)
(* to a world record: w.civ is the controller (its fields and s.state),    *)
(* w.civBands the global band table, w.timers the runtime's timers,        *)
(* w.wire the packets handed to s.st.send by the running step, w.ret and   *)
(* w.err the value the method returned.  The actions run one handler each  *)
(* on the world assembled from the variables and store the result back.   *)
(***************************************************************************)
EXTENDS Integers, Sequences, FiniteSets, TLC

VARIABLES
    civ,        \* civControl: st, deinitNeeded, pendingCmds, the slots, the mirror
    civBands,   \* the band table with the frequency remembered per band
    timers,     \* timers created by time.AfterFunc: kind, deadline, live
    now,        \* the clock
    loop,       \* the goroutine running loop(): pc, nextPendingCmdTimeout, selectAt
    deinitPc,   \* the caller of deinit(): "idle", "send" (blocked on deinitNeeded), "recv"
    panicked,   \* a run-time panic (index out of range) has ended the program
    streamDown, \* serialStream.send returns an error while TRUE
    wire,       \* the packets the last step handed to s.st.send
    last,       \* the last step: task, op, arg, ret, err, unlocked, held, stuck
    obs,        \* history: when ptt became true, what was dispatched since
    budget,     \* steps taken so far, per kind
    statusLog   \* statusLog: ticker, its loop goroutine, the caller of stopPeriodicPrint

vars == <<civ, civBands, timers, now, loop, deinitPc, panicked, streamDown, wire, last,
          obs, budget, statusLog>>

---------------------------------------------------------------------------
(* Constants of the program *)

statusPollInterval  == 1000
commandRetryTimeout == 500
pttTimeout          == 600000
tuneTimeout         == 30000
delayedStatusQuery  == 1000
timeHour            == 3600000
ON  == 1
OFF == 0
OK  == \hFB
NG  == \hFA

civAddress        == \hA4
controllerAddress == \hE0

ZeroTime == -1

---------------------------------------------------------------------------
(* Bounds of the model *)

MaxReq     == 1     \* requests by external callers in one behaviour
MaxPkt     == 2     \* packets decoded in one behaviour
MaxAdvance == 2     \* clock advances in one behaviour
MaxInits   == 1     \* calls of init in one behaviour
MaxSame    == 2     \* requests made for one command in one behaviour
MaxSessions == 2    \* calls of init in one behaviour with reconnects

---------------------------------------------------------------------------
(* Go slices and bytes *)

At(d, i)   == d[i + 1]
From(d, i) == SubSeq(d, i + 1, Len(d))
Byte(n)    == n % 256

RECURSIVE Pow10(_)
Pow10(n) == IF n = 0 THEN 1 ELSE 10 * Pow10(n - 1)

Min(a, b) == IF a < b THEN a ELSE b

---------------------------------------------------------------------------
(* Tables *)

civOperatingModes == <<
    [name |-> "LSB", code |-> \h00], [name |-> "USB", code |-> \h01],
    [name |-> "AM", code |-> \h02], [name |-> "CW", code |-> \h03],
    [name |-> "RTTY", code |-> \h04], [name |-> "FM", code |-> \h05],
    [name |-> "WFM", code |-> \h06], [name |-> "CW-R", code |-> \h07],
    [name |-> "RTTY-R", code |-> \h08], [name |-> "DV", code |-> \h17] >>

civFilters == <<
    [name |-> "FIL1", code |-> \h01], [name |-> "FIL2", code |-> \h02],
    [name |-> "FIL3", code |-> \h03] >>

\* civBands as the program starts: no frequency remembered yet
civBandsInit == <<
    [freqFrom |-> 1800000, freqTo |-> 2000000, freq |-> 0],
    [freqFrom |-> 3500000, freqTo |-> 4000000, freq |-> 0],
    [freqFrom |-> 7000000, freqTo |-> 7300000, freq |-> 0],
    [freqFrom |-> 10100000, freqTo |-> 10150000, freq |-> 0],
    [freqFrom |-> 14000000, freqTo |-> 14350000, freq |-> 0],
    [freqFrom |-> 18068000, freqTo |-> 18168000, freq |-> 0],
    [freqFrom |-> 21000000, freqTo |-> 21450000, freq |-> 0],
    [freqFrom |-> 24890000, freqTo |-> 24990000, freq |-> 0],
    [freqFrom |-> 28000000, freqTo |-> 29700000, freq |-> 0],
    [freqFrom |-> 50000000, freqTo |-> 54000000, freq |-> 0],
    [freqFrom |-> 144000000, freqTo |-> 148000000, freq |-> 0],
    [freqFrom |-> 420000000, freqTo |-> 450000000, freq |-> 0] >>

splitModeOff      == 0
splitModeOn       == 1
splitModeDUPMinus == 2
splitModeDUPPlus  == 3

\* The civCmd fields of s.state
GetSlots == {"getFreq", "getPwr", "getS", "getOVF", "getSWR", "getTransmitStatus",
             "getPreamp", "getAGC", "getTuneStatus", "getVd", "getTuningStep",
             "getRFGain", "getSQL", "getNR", "getNREnabled", "getSplit",
             "getMainVFOFreq", "getSubVFOFreq", "getMainVFOMode", "getSubVFOMode"}

SetSlots == {"setPwr", "setRFGain", "setSQL", "setNR", "setMainVFOFreq",
             "setSubVFOFreq", "setMode", "setSubVFOMode", "setPTT", "setTune",
             "setDataMode", "setPreamp", "setAGC", "setNREnabled",
             "setTuningStep", "setVFO", "setSplit"}

Slots == GetSlots \cup SetSlots

\* The command catalogue: command name -> cmdSeq
CIV == [
    getFreq |-> <<\h03>>, getMode |-> <<\h04>>, setMode |-> <<\h06>>,
    setVFO |-> <<\h07>>,
    getSplit |-> <<\h0F>>, setSplit |-> <<\h0F>>, disableSplit |-> <<\h0F, \h00>>,
    getTuningStep |-> <<\h10>>, setTuningStep |-> <<\h10>>,
    getRFGain |-> <<\h14, \h02>>, setRFGain |-> <<\h14, \h02>>,
    getSQL |-> <<\h14, \h03>>, setSQL |-> <<\h14, \h03>>,
    getNR |-> <<\h14, \h06>>, setNR |-> <<\h14, \h06>>,
    getPwr |-> <<\h14, \h0A>>, setPwr |-> <<\h14, \h0A>>,
    getS |-> <<\h15, \h02>>, getSWR |-> <<\h15, \h12>>, getVd |-> <<\h15, \h15>>,
    getPreamp |-> <<\h16, \h02>>, setPreamp |-> <<\h16, \h02>>,
    getAGC |-> <<\h16, \h12>>, setAGC |-> <<\h16, \h12>>,
    getNREnabled |-> <<\h16, \h40>>, setNREnabled |-> <<\h16, \h40>>,
    sendCWMsg |-> <<\h17>>,
    getDataMode |-> <<\h1A, \h06>>, setDataMode |-> <<\h1A, \h06>>,
    getOVF |-> <<\h1A, \h09>>,
    getTransmitStatus |-> <<\h1C, \h00>>, setPTT |-> <<\h1C, \h00>>,
    setTune |-> <<\h1C, \h01>>, getTuneStatus |-> <<\h1C, \h01>>,
    getMainVFOFreq |-> <<\h25, \h00>>, setMainVFOFreq |-> <<\h25, \h00>>,
    getSubVFOFreq |-> <<\h25, \h01>>, setSubVFOFreq |-> <<\h25, \h01>>,
    getMainVFOMode |-> <<\h26, \h00>>, setMainVFOMode |-> <<\h26, \h00>>,
    getSubVFOMode |-> <<\h26, \h01>>, setSubVFOMode |-> <<\h26, \h01>> ]

\* CIV[command].cmdSeq; a name the map does not hold gives the zero CIVCmdSet
cmdSeq(command) == IF command \in DOMAIN CIV THEN CIV[command] ELSE <<>>

noData == <<>>

---------------------------------------------------------------------------
(* Packet building and the numeric encodings *)

prepPacket(command, data) ==
    <<\hFE, \hFE>> \o <<civAddress, controllerAddress>> \o cmdSeq(command)
        \o data \o <<\hFD>>

\* one round of the double dabble loop; v stays far below the 32 bits of uint32
dabble(v) ==
    LET a == IF (v \div 256) % 16 > 4 THEN v + 768 ELSE v
        b == IF (a \div 4096) % 16 > 4 THEN a + 12288 ELSE a
    IN  b * 2

encodeForSend(decimal) ==
    LET v0 == decimal * 8
        v  == dabble(dabble(dabble(dabble(dabble(v0)))))
        hundreds == (v \div 65536) % 16
        tens     == (v \div 4096) % 16
        ones     == (v \div 256) % 16
        lo       == ((tens * 8) + (tens * 2)) + ones
    IN  <<Byte(hundreds), Byte(lo)>>

\* the sum is computed in the byte type, then widened
\* a BCDToDec that reads the second byte as two packed decimal digits
BCDToDecPacked(bcd) ==
    Byte(At(bcd, 0) * 100 + ((At(bcd, 1) \div 16) * 10) + (At(bcd, 1) % 16))

BCDToDec(bcd) == Byte(At(bcd, 0) * 100 + At(bcd, 1))

\* float64 division by 10, decade times, then truncation: exact below 10^15
getDigit(v, decade) == Byte((v \div Pow10(decade)) % 10)

RECURSIVE decodeFreqDigits(_, _)
decodeFreqDigits(d, pos) ==
    IF d = <<>> THEN 0
    ELSE LET v  == Head(d)
             s1 == v % 16
             s2 == v \div 16
         IN  s1 * Pow10(pos) + s2 * Pow10(pos + 1) + decodeFreqDigits(Tail(d), pos + 2)

\* a decoder that reads the first four bytes only
decodeFreqDataFourBytes(d) == decodeFreqDigits(SubSeq(d, 1, Min(4, Len(d))), 0)

decodeFreqData(d) == decodeFreqDigits(d, 0)

\* an encoding with the highest digits first
encodeFreqDataBigEndian(f) ==
    <<Byte(getDigit(f, 9) * 16 + getDigit(f, 8)),
      Byte(getDigit(f, 7) * 16 + getDigit(f, 6)),
      Byte(getDigit(f, 5) * 16 + getDigit(f, 4)),
      Byte(getDigit(f, 3) * 16 + getDigit(f, 2)),
      Byte(getDigit(f, 1) * 16 + getDigit(f, 0))>>

encodeFreqData(f) ==
    <<Byte(getDigit(f, 1) * 16 + getDigit(f, 0)),
      Byte(getDigit(f, 3) * 16 + getDigit(f, 2)),
      Byte(getDigit(f, 5) * 16 + getDigit(f, 4)),
      Byte(getDigit(f, 7) * 16 + getDigit(f, 6)),
      Byte(getDigit(f, 9) * 16 + getDigit(f, 8))>>

---------------------------------------------------------------------------
(* The controller as the program starts: the zero civControlStruct *)

zeroCmd == [pending |-> FALSE, sentAt |-> ZeroTime, name |-> "", cmd |-> <<>>]

civZero == [
    st |-> FALSE, deinitNeeded |-> FALSE,
    pendingCmds |-> <<>>,
    cmds |-> [c \in Slots |-> zeroCmd],
    lastSReceivedAt |-> ZeroTime, lastOVFReceivedAt |-> ZeroTime,
    lastSWRReceivedAt |-> ZeroTime, lastVFOFreqReceivedAt |-> ZeroTime,
    pttTimeoutTimer |-> 0, tuneTimeoutTimer |-> 0,
    freq |-> 0, subFreq |-> 0, ptt |-> FALSE, tune |-> FALSE,
    pwrLevel |-> 0, rfGainLevel |-> 0, sqlLevel |-> 0, nrLevel |-> 0,
    nrEnabled |-> FALSE, operatingModeIdx |-> 0, dataMode |-> FALSE,
    filterIdx |-> 0, subOperatingModeIdx |-> 0, subDataMode |-> FALSE,
    subFilterIdx |-> 0, bandIdx |-> 0, preamp |-> 0, agc |-> 0,
    tsValue |-> 0, ts |-> 0, vfoBActive |-> FALSE, splitMode |-> splitModeOff ]

\* time.Since(t); the zero time.Time is further back than any interval compared
Since(w, t) == IF t = ZeroTime THEN timeHour ELSE w.now - t

\* time.AfterFunc(d, f) with f named by kind; the handle is the timer's index
AfterFunc(w, kind, d) ==
    [w EXCEPT !.timers = Append(@, [kind |-> kind, deadline |-> w.now + d, live |-> TRUE])]

\* (*time.Timer).Stop
StopTimer(w, h) == [w EXCEPT !.timers[h].live = FALSE]

\* a run-time panic: the handler stops where it is
Panic(w) == [w EXCEPT !.panic = TRUE]

---------------------------------------------------------------------------
(* Command slots and the pending set *)

\* an access of s.state: w.unlocked records one made while state.mutex is not held
touch(w) == [w EXCEPT !.unlocked = @ \/ ~w.locked]

\* state.mutex.Lock() and Unlock(): sync.Mutex is not reentrant, a task that
\* locks it while holding it blocks for good and never reaches its Unlock
Lock(w)   == IF w.locked THEN [w EXCEPT !.stuck = TRUE]
             ELSE touch([w EXCEPT !.locked = TRUE])
Unlock(w) == IF w.stuck THEN w ELSE [w EXCEPT !.locked = FALSE]

\* an initCmd that leaves a request alone which is still pending
initCmdKeepPending(w, c, data) ==
    IF w.civ.cmds[c].pending THEN touch(w)
    ELSE [touch(w) EXCEPT !.civ.cmds[c] = [pending |-> FALSE, sentAt |-> ZeroTime,
                                           name |-> c, cmd |-> data]]

initCmd(w, c, data) ==
    [touch(w) EXCEPT !.civ.cmds[c] = [pending |-> FALSE, sentAt |-> ZeroTime,
                                      name |-> c, cmd |-> data]]

getPendingCmdIndex(w, c) ==
    LET hits == {i \in 1..Len(w.civ.pendingCmds) : w.civ.pendingCmds[i] = c}
    IN  IF hits = {} THEN -1
        ELSE (CHOOSE i \in hits : \A j \in hits : i <= j) - 1

removePendingCmd(w, c) ==
    LET w1    == [touch(w) EXCEPT !.civ.cmds[c].pending = FALSE]
        index == getPendingCmdIndex(w1, c)
        n     == Len(w1.civ.pendingCmds)
    IN  IF index < 0 THEN w1
        ELSE [w1 EXCEPT !.civ.pendingCmds =
                 SubSeq([@ EXCEPT ![index + 1] = w1.civ.pendingCmds[n]], 1, n - 1)]

\* s.newPendingCmdAdded <- true in a select with a default: the send goes through
\* only while the loop goroutine waits in its select
signalNewPendingCmd(w) ==
    IF w.loopWaiting THEN [w EXCEPT !.loopWaiting = FALSE, !.woke = TRUE] ELSE w

\* s.st.send(cmd.cmd)
stSend(w, c) ==
    [w EXCEPT !.wire = Append(@, [slot |-> c, cmd |-> w.civ.cmds[c].cmd,
                                  locked |-> w.locked]),
              !.err = w.streamDown]

\* a sendCmd that writes first and gives up when the write fails
sendCmdWriteFirst(w, c) ==
    IF ~w.civ.st THEN [w EXCEPT !.err = FALSE]
    ELSE LET s  == stSend(touch(w), c)
             w1 == [s EXCEPT !.civ.cmds[c].pending = TRUE,
                             !.civ.cmds[c].sentAt = w.now]
         IN  IF s.err THEN s
             ELSE IF getPendingCmdIndex(w1, c) < 0
             THEN signalNewPendingCmd([w1 EXCEPT !.civ.pendingCmds = Append(@, c)])
             ELSE w1

\* a sendCmd that takes state.mutex itself around the slot and the pending set
sendCmdLocking(w, c) ==
    IF ~w.civ.st THEN [w EXCEPT !.err = FALSE]
    ELSE LET l  == Lock(w)
             w1 == [l EXCEPT !.civ.cmds[c].pending = TRUE,
                             !.civ.cmds[c].sentAt = w.now]
             w2 == IF getPendingCmdIndex(w1, c) < 0
                   THEN signalNewPendingCmd(
                            [w1 EXCEPT !.civ.pendingCmds = Append(@, c)])
                   ELSE w1
         IN  stSend(Unlock(w2), c)

sendCmd(w, c) ==
    IF ~w.civ.st THEN [w EXCEPT !.err = FALSE]
    ELSE LET w1 == [touch(w) EXCEPT !.civ.cmds[c].pending = TRUE,
                                    !.civ.cmds[c].sentAt = w.now]
             w2 == IF getPendingCmdIndex(w1, c) < 0
                   THEN signalNewPendingCmd(
                            [w1 EXCEPT !.civ.pendingCmds = Append(@, c)])
                   ELSE w1
         IN  stSend(w2, c)

\* sendCmd in a goroutine that made its getPendingCmdIndex test, with result
\* index, before another goroutine in sendCmd appended the slot: no lock orders
\* the test and the append of the two
sendCmdTested(w, c, index) ==
    IF ~w.civ.st THEN [w EXCEPT !.err = FALSE]
    ELSE LET w1 == [touch(w) EXCEPT !.civ.cmds[c].pending = TRUE,
                                    !.civ.cmds[c].sentAt = w.now]
             w2 == IF index < 0
                   THEN signalNewPendingCmd(
                            [w1 EXCEPT !.civ.pendingCmds = Append(@, c)])
                   ELSE w1
         IN  stSend(w2, c)

\* s.initCmd(&s.state.c, name, prepPacket(command, data)); return s.sendCmd(&s.state.c)
request(w, c, command, data) == sendCmd(initCmd(w, c, prepPacket(command, data)), c)

---------------------------------------------------------------------------
(* The get requests *)

getFreq(w)       == request(w, "getFreq", "getFreq", noData)
getPwr(w)        == request(w, "getPwr", "getPwr", noData)
getPreamp(w)     == request(w, "getPreamp", "getPreamp", noData)
getAGC(w)        == request(w, "getAGC", "getAGC", noData)
getVd(w)         == request(w, "getVd", "getVd", noData)
getS(w)          == request(w, "getS", "getS", noData)
getOVF(w)        == request(w, "getOVF", "getOVF", noData)
getSWR(w)        == request(w, "getSWR", "getSWR", noData)
getTuningStep(w) == request(w, "getTuningStep", "getTuningStep", noData)
getRFGain(w)     == request(w, "getRFGain", "getRFGain", noData)
getSQL(w)        == request(w, "getSQL", "getSQL", noData)
getNR(w)         == request(w, "getNR", "getNR", noData)
getNREnabled(w)  == request(w, "getNREnabled", "getNREnabled", noData)
getSplit(w)      == request(w, "getSplit", "getSplit", noData)

getTransmitStatus(w) ==
    LET w1 == request(w, "getTransmitStatus", "getTransmitStatus", noData)
    IN  IF w1.err THEN w1
        ELSE request(w1, "getTuneStatus", "getTuneStatus", noData)

\* getTransmitStatus run by two goroutines at once, the second making each test of
\* the pending set before the first has appended
getTransmitStatusTwice(w) ==
    LET first == getTransmitStatus(w)
        a == sendCmdTested(initCmd(first, "getTransmitStatus",
                                   prepPacket("getTransmitStatus", noData)),
                           "getTransmitStatus", getPendingCmdIndex(w, "getTransmitStatus"))
    IN  IF first.err \/ a.err THEN a
        ELSE sendCmdTested(initCmd(a, "getTuneStatus", prepPacket("getTuneStatus", noData)),
                           "getTuneStatus", getPendingCmdIndex(w, "getTuneStatus"))

getBothVFOFreq(w) ==
    LET w1 == request(w, "getMainVFOFreq", "getMainVFOFreq", noData)
    IN  IF w1.err THEN w1
        ELSE request(w1, "getSubVFOFreq", "getSubVFOFreq", noData)

getBothVFOMode(w) ==
    LET w1 == request(w, "getMainVFOMode", "getMainVFOMode", noData)
    IN  IF w1.err THEN w1
        ELSE request(w1, "getSubVFOMode", "getSubVFOMode", noData)

---------------------------------------------------------------------------
(* The set requests *)

setPwr(w, level)    == request(w, "setPwr", "setPwr", encodeForSend(level))
setRFGain(w, level) == request(w, "setRFGain", "setRFGain", encodeForSend(level))
setSQL(w, level)    == request(w, "setSQL", "setSQL", encodeForSend(level))

toggleNR(w) ==
    request(w, "setNREnabled", "setNREnabled",
            <<IF ~w.civ.nrEnabled THEN ON ELSE 0>>)

\* the packet is prepared under the name "setSNR", which the catalogue does not hold
setNR(w, level) ==
    LET w1 == IF ~w.civ.nrEnabled THEN toggleNR(w) ELSE [w EXCEPT !.err = FALSE]
    IN  IF w1.err THEN w1
        ELSE request(w1, "setNR", "setSNR", encodeForSend(level))

incPwr(w) == IF w.civ.pwrLevel < 255 THEN setPwr(w, w.civ.pwrLevel + 1) ELSE w
decPwr(w) == IF w.civ.pwrLevel > 0 THEN setPwr(w, w.civ.pwrLevel - 1) ELSE w
incRFGain(w) == IF w.civ.rfGainLevel < 255 THEN setRFGain(w, w.civ.rfGainLevel + 1) ELSE w
decRFGain(w) == IF w.civ.rfGainLevel > 0 THEN setRFGain(w, w.civ.rfGainLevel - 1) ELSE w
incSQL(w) == IF w.civ.sqlLevel < 255 THEN setSQL(w, w.civ.sqlLevel + 1) ELSE w
decSQL(w) == IF w.civ.sqlLevel > 0 THEN setSQL(w, w.civ.sqlLevel - 1) ELSE w
incNR(w) == IF w.civ.nrLevel < 255 THEN setNR(w, w.civ.nrLevel + 1) ELSE w
decNR(w) == IF w.civ.nrLevel > 0 THEN setNR(w, w.civ.nrLevel - 1) ELSE w

setMainVFOFreq(w, f) ==
    request(w, "setMainVFOFreq", "setMainVFOFreq", encodeFreqData(f))

setSubVFOFreq(w, f) ==
    request(w, "setSubVFOFreq", "setSubVFOFreq", encodeFreqData(f))

setOperatingModeAndFilter(w, modeCode, filterCode) ==
    LET w1 == request(w, "setMode", "setMode", <<modeCode, filterCode>>)
    IN  IF w1.err THEN w1 ELSE getBothVFOMode(w1)

\* the tail of the four mode and filter steppers: look both tables up, ask
setModeAndFilterByIdx(w) ==
    IF \/ w.civ.operatingModeIdx < 0 \/ w.civ.operatingModeIdx >= Len(civOperatingModes)
       \/ w.civ.filterIdx < 0 \/ w.civ.filterIdx >= Len(civFilters)
    THEN Panic(w)
    ELSE setOperatingModeAndFilter(w, civOperatingModes[w.civ.operatingModeIdx + 1].code,
                                   civFilters[w.civ.filterIdx + 1].code)

incOperatingMode(w) ==
    setModeAndFilterByIdx(
        [touch(w) EXCEPT !.civ.operatingModeIdx =
            IF @ + 1 >= Len(civOperatingModes) THEN 0 ELSE @ + 1])

decOperatingMode(w) ==
    setModeAndFilterByIdx(
        [touch(w) EXCEPT !.civ.operatingModeIdx =
            IF @ - 1 < 0 THEN Len(civOperatingModes) - 1 ELSE @ - 1])

incFilter(w) ==
    setModeAndFilterByIdx(
        [touch(w) EXCEPT !.civ.filterIdx = IF @ + 1 >= Len(civFilters) THEN 0 ELSE @ + 1])

decFilter(w) ==
    setModeAndFilterByIdx(
        [touch(w) EXCEPT !.civ.filterIdx = IF @ - 1 < 0 THEN Len(civFilters) - 1 ELSE @ - 1])

incFreq(w) == setMainVFOFreq(touch(w), w.civ.freq + w.civ.ts)

\* encodeFreqData of the unsigned value 2^width - k that freq - ts wraps to,
\* for 0 < k <= 1024.  With 32 bits the value is exact in float64 and the digits
\* are those of 4294967296 - k.  With 64 bits float64(v) is 2^64: the digits of
\* the decades 1 to 9 come out as 3 7 0 9 5 5 2 0 4, and the conversion back to
\* uint for decade 0 is out of range, its result d0 left to the implementation
uintWidths == {32, 64}
wrappedFreqData(k, width, d0) ==
    IF width = 32
    THEN LET low == 294967296 - k
         IN  <<Byte(getDigit(low, 1) * 16 + getDigit(low, 0)),
               Byte(getDigit(low, 3) * 16 + getDigit(low, 2)),
               Byte(getDigit(low, 5) * 16 + getDigit(low, 4)),
               Byte(getDigit(low, 7) * 16 + getDigit(low, 6)),
               Byte(4 * 16 + getDigit(low, 8))>>
    ELSE <<Byte(4 * 16 + d0), \h20, \h55, \h09, \h37>>

decFreq(w, width, d0) ==
    IF w.civ.freq >= w.civ.ts
    THEN setMainVFOFreq(touch(w), w.civ.freq - w.civ.ts)
    ELSE request(touch(w), "setMainVFOFreq", "setMainVFOFreq",
                 wrappedFreqData(w.civ.ts - w.civ.freq, width, d0))

setSubVFOMode(w, modeCode, dataMode, filterCode) ==
    request(w, "setSubVFOMode", "setSubVFOMode", <<modeCode, dataMode, filterCode>>)

setPTT(w, enable) ==
    LET w1 == IF enable
              THEN [AfterFunc(w, "ptt", pttTimeout)
                       EXCEPT !.civ.pttTimeoutTimer = Len(w.timers) + 1]
              ELSE w
    IN  request(w1, "setPTT", "setPTT", <<IF enable THEN ON ELSE 0>>)

\* off is sent as ON (1), on as 2 (tune)
setTune(w, enable) ==
    IF w.civ.ptt THEN [w EXCEPT !.err = FALSE]
    ELSE LET w1 == IF enable
                   THEN [AfterFunc(w, "tune", tuneTimeout)
                            EXCEPT !.civ.tuneTimeoutTimer = Len(w.timers) + 1]
                   ELSE w
         IN  request(w1, "setTune", "setTune", <<IF enable THEN 2 ELSE ON>>)

toggleAntennaTuner(w) == setTune(w, ~w.civ.tune)

setDataMode(w, enable) ==
    request(w, "setDataMode", "setDataMode",
            IF enable THEN <<ON, \h01>> ELSE <<OFF, OFF>>)

toggleDataMode(w) == setDataMode(w, ~w.civ.dataMode)

setTuningStep(w, b) == request(w, "setTuningStep", "setTuningStep", <<b>>)

incTuningStep(w) ==
    setTuningStep(touch(w), IF w.civ.tsValue = 13 THEN 0 ELSE Byte(w.civ.tsValue + 1))

decTuningStep(w) ==
    setTuningStep(touch(w), IF w.civ.tsValue = 0 THEN 13 ELSE Byte(w.civ.tsValue - 1))

setVFO(w, nr) ==
    LET w1 == request(w, "setVFO", "setVFO", <<nr>>)
    IN  IF w1.err THEN w1 ELSE getBothVFOMode(w1)

toggleVFO(w) == setVFO(w, IF ~w.civ.vfoBActive THEN 1 ELSE 0)

\* a setSplit that sends the number of the mode as the data byte
setSplitByNumber(w, mode) == request(w, "setSplit", "setSplit", <<mode>>)

setSplit(w, mode) ==
    LET b == CASE mode = splitModeOff      -> \h10
               [] mode = splitModeOn       -> \h01
               [] mode = splitModeDUPMinus -> \h11
               [] mode = splitModeDUPPlus  -> \h12
               [] OTHER                    -> \h10
    IN  request(w, "setSplit", "setSplit", <<b>>)

toggleSplit(w) ==
    setSplit(w, CASE w.civ.splitMode = splitModeOff      -> splitModeOn
                  [] w.civ.splitMode = splitModeOn       -> splitModeDUPMinus
                  [] w.civ.splitMode = splitModeDUPMinus -> splitModeDUPPlus
                  [] OTHER                               -> splitModeOff)

\* an incBand that starts an unvisited band at its lower edge, as decBand does
incBandFromEdge(w) ==
    LET n == IF w.civ.bandIdx + 1 >= Len(w.civBands) THEN 0 ELSE w.civ.bandIdx + 1
        b == w.civBands[n + 1]
    IN  setMainVFOFreq(touch(w), IF b.freq = 0 THEN b.freqFrom ELSE b.freq)

incBand(w) ==
    LET n == IF w.civ.bandIdx + 1 >= Len(w.civBands) THEN 0 ELSE w.civ.bandIdx + 1
        b == w.civBands[n + 1]
    IN  setMainVFOFreq(touch(w), IF b.freq = 0 THEN (b.freqFrom + b.freqTo) \div 2
                                 ELSE b.freq)

decBand(w) ==
    LET n == IF w.civ.bandIdx - 1 < 0 THEN Len(w.civBands) - 1 ELSE w.civ.bandIdx - 1
        b == w.civBands[n + 1]
    IN  setMainVFOFreq(touch(w), IF b.freq = 0 THEN b.freqFrom ELSE b.freq)

---------------------------------------------------------------------------
(* Decoding.  Each decodeX(w, d) gets the payload d and leaves the value    *)
(* decode returns in w.ret.                                                 *)

Ret(w, b) == [w EXCEPT !.ret = b]

Pending(w, c) == w.civ.cmds[c].pending

\* if s.state.c.pending { s.removePendingCmd(&s.state.c); return false }, for the
\* slots of cs in turn; return true when none is pending
clearFirstPending(w, cs) ==
    LET hits == {i \in 1..Len(cs) : Pending(w, cs[i])}
    IN  IF hits = {} THEN Ret(w, TRUE)
        ELSE Ret(removePendingCmd(w, cs[CHOOSE i \in hits : \A j \in hits : i <= j]),
                 FALSE)

\* a too-short reply taken as the answer to a pending request of cs
nonePendingDrops(w, cs) ==
    IF \E c \in cs : Pending(w, c)
    THEN Ret(removePendingCmd(w, CHOOSE c \in cs : Pending(w, c)), FALSE)
    ELSE Ret(w, TRUE)

\* return !a.pending && !b.pending ...
nonePending(w, cs) == Ret(w, \A c \in cs : ~Pending(w, c))

\* the scan of civBands on a frequency update
relocateBand(w) ==
    LET hits == {i \in 1..Len(w.civBands) :
                    /\ w.civ.freq >= w.civBands[i].freqFrom
                    /\ w.civ.freq <= w.civBands[i].freqTo}
    IN  IF hits = {} THEN [w EXCEPT !.civ.bandIdx = Len(w.civBands) - 1]
        ELSE LET i == CHOOSE i \in hits : \A j \in hits : i <= j
             IN  [w EXCEPT !.civ.bandIdx = i - 1,
                           !.civBands[i].freq = w.civ.freq]

decodeFreq(w, d) ==
    IF Len(d) < 2 THEN nonePending(w, {"getFreq", "setMainVFOFreq"})
    ELSE LET w1 == relocateBand([w EXCEPT !.civ.freq = decodeFreqData(d)])
         IN  clearFirstPending(w1, <<"getFreq", "setMainVFOFreq">>)

decodeFilterValueToFilterIdx(v) ==
    LET hits == {i \in 1..Len(civFilters) : civFilters[i].code = v}
    IN  IF hits = {} THEN 0 ELSE (CHOOSE i \in hits : \A j \in hits : i <= j) - 1

\* the index of the mode with this code, or none when no mode has it
modeIdxOf(code, none) ==
    LET hits == {i \in 1..Len(civOperatingModes) : civOperatingModes[i].code = code}
    IN  IF hits = {} THEN none ELSE (CHOOSE i \in hits : \A j \in hits : i <= j) - 1

\* civOperatingModes[m].name and civFilters[f].name are read for the status line
tableLookupPanics(m, f) ==
    \/ m < 0 \/ m >= Len(civOperatingModes)
    \/ f < 0 \/ f >= Len(civFilters)

decodeMode(w, d) ==
    IF Len(d) < 1 THEN nonePending(w, {"setMode"})
    ELSE LET w1 == [w EXCEPT !.civ.operatingModeIdx = modeIdxOf(At(d, 0), @)]
             w2 == IF Len(d) > 1
                   THEN [w1 EXCEPT !.civ.filterIdx = decodeFilterValueToFilterIdx(At(d, 1))]
                   ELSE w1
         IN  IF tableLookupPanics(w2.civ.operatingModeIdx, w2.civ.filterIdx)
             THEN Panic(w2)
             ELSE clearFirstPending(w2, <<"setMode">>)

decodeVFO(w, d) ==
    IF Len(d) < 1 THEN nonePending(w, {"setVFO"})
    ELSE LET w1 == [w EXCEPT !.civ.vfoBActive = (At(d, 0) = 1)]
         IN  IF Pending(w1, "setVFO")
             THEN Ret(removePendingCmd(getBothVFOFreq(w1), "setVFO"), FALSE)
             ELSE Ret(w1, TRUE)

decodeSplit(w, d) ==
    IF Len(d) < 1 THEN nonePending(w, {"getSplit", "setSplit"})
    ELSE LET m == CASE At(d, 0) = \h01 -> splitModeOn
                    [] At(d, 0) = \h11 -> splitModeDUPMinus
                    [] At(d, 0) = \h12 -> splitModeDUPPlus
                    [] OTHER           -> splitModeOff
         IN  clearFirstPending([w EXCEPT !.civ.splitMode = m],
                               <<"getSplit", "setSplit">>)

tsOf(v) ==
    CASE v = 1 -> 100 [] v = 2 -> 500 [] v = 3 -> 1000 [] v = 4 -> 5000
      [] v = 5 -> 6250 [] v = 6 -> 8330 [] v = 7 -> 9000 [] v = 8 -> 10000
      [] v = 9 -> 12500 [] v = 10 -> 20000 [] v = 11 -> 25000
      [] v = 12 -> 50000 [] v = 13 -> 100000 [] OTHER -> 1

decodeTuningStep(w, d) ==
    IF Len(d) < 1 THEN nonePending(w, {"getTuningStep", "setTuningStep"})
    ELSE clearFirstPending([w EXCEPT !.civ.tsValue = At(d, 0),
                                     !.civ.ts = tsOf(At(d, 0))],
                           <<"getTuningStep", "setTuningStep">>)

\* d[0] is read before any length check
decodeDataModeAndOVF(w, d) ==
    IF Len(d) < 1 THEN Panic(w)
    ELSE CASE At(d, 0) = \h06 ->
                IF Len(d) < 3 THEN nonePending(w, {"setDataMode"})
                ELSE LET w1 == IF At(d, 1) = 1
                               THEN [w EXCEPT !.civ.dataMode = TRUE,
                                              !.civ.filterIdx =
                                                  decodeFilterValueToFilterIdx(At(d, 2))]
                               ELSE [w EXCEPT !.civ.dataMode = FALSE]
                     IN  IF tableLookupPanics(w1.civ.operatingModeIdx, w1.civ.filterIdx)
                         THEN Panic(w1)
                         ELSE clearFirstPending(w1, <<"setDataMode">>)
           [] At(d, 0) = \h09 ->
                IF Len(d) < 2 THEN nonePending(w, {"getOVF"})
                ELSE clearFirstPending([w EXCEPT !.civ.lastOVFReceivedAt = w.now],
                                       <<"getOVF">>)
           [] OTHER -> Ret(w, TRUE)

\* the squelch branch returns false for a pending setSQL without removing it
decodePowerRFGainSQLNRPwr(w, d) ==
    IF Len(d) < 1 THEN Panic(w)
    ELSE LET subcmd == At(d, 0)
             data   == From(d, 1)
         IN  CASE subcmd = \h02 ->
                    IF Len(data) < 2 THEN nonePending(w, {"getRFGain", "setRFGain"})
                    ELSE clearFirstPending([w EXCEPT !.civ.rfGainLevel = BCDToDec(data)],
                                           <<"getRFGain", "setRFGain">>)
               [] subcmd = \h03 ->
                    IF Len(data) < 2 THEN nonePending(w, {"getSQL", "setSQL"})
                    ELSE LET w1 == [w EXCEPT !.civ.sqlLevel = BCDToDec(data)]
                         IN  IF Pending(w1, "getSQL")
                             THEN Ret(removePendingCmd(w1, "getSQL"), FALSE)
                             ELSE IF Pending(w1, "setSQL") THEN Ret(w1, FALSE)
                             ELSE Ret(w1, TRUE)
               [] subcmd = \h06 ->
                    IF Len(data) < 2 THEN nonePending(w, {"getNR", "setNR"})
                    ELSE clearFirstPending([w EXCEPT !.civ.nrLevel = BCDToDec(data)],
                                           <<"getNR", "setNR">>)
               [] subcmd = \h0A ->
                    IF Len(data) < 2 THEN nonePending(w, {"getPwr", "setPwr"})
                    ELSE clearFirstPending([w EXCEPT !.civ.pwrLevel = BCDToDec(data)],
                                           <<"getPwr", "setPwr">>)
               [] OTHER -> Ret(w, TRUE)

decodeTransmitStatus(w, d) ==
    IF Len(d) < 2
    THEN nonePending(w, {"getTuneStatus", "getTransmitStatus", "setPTT"})
    ELSE LET tail(x) == clearFirstPending(x, <<"getTuneStatus", "getTransmitStatus">>)
         IN  CASE At(d, 0) = 0 ->
                    LET w1 == IF At(d, 1) = 1 THEN [w EXCEPT !.civ.ptt = TRUE]
                              ELSE IF w.civ.ptt
                              THEN LET a == [w EXCEPT !.civ.ptt = FALSE]
                                       b == IF a.civ.pttTimeoutTimer # 0
                                            THEN StopTimer(a, a.civ.pttTimeoutTimer)
                                            ELSE a
                                   IN  getVd(b)
                              ELSE w
                    IN  IF Pending(w1, "setPTT")
                        THEN Ret(removePendingCmd(w1, "setPTT"), FALSE)
                        ELSE tail(w1)
               [] At(d, 0) = 1 ->
                    LET w1 == IF At(d, 1) = 2
                              THEN AfterFunc([w EXCEPT !.civ.tune = TRUE], "status",
                                             delayedStatusQuery)
                              ELSE IF w.civ.tune
                              THEN LET a == [w EXCEPT !.civ.tune = FALSE]
                                       b == IF a.civ.tuneTimeoutTimer # 0
                                            THEN [StopTimer(a, a.civ.tuneTimeoutTimer)
                                                     EXCEPT !.civ.tuneTimeoutTimer = 0]
                                            ELSE a
                                   IN  getVd(b)
                              ELSE w
                    IN  IF Pending(w1, "setTune")
                        THEN Ret(removePendingCmd(w1, "setTune"), FALSE)
                        ELSE tail(w1)
               [] OTHER -> tail(w)

\* d[0] is read before any length check
\* the S-level reported for an S-meter reading: int(float64(dec)/241) * 18
sMeterFullScale == 241
BCDToSLevel(bcd) == (BCDToDec(bcd) \div sMeterFullScale) * 18

decodeVdSWRS(w, d) ==
    IF Len(d) < 1 THEN Panic(w)
    ELSE LET subcmd == At(d, 0)
             data   == From(d, 1)
         IN  CASE subcmd = \h02 ->
                    IF Len(data) < 2 THEN nonePending(w, {"getS"})
                    ELSE clearFirstPending([w EXCEPT !.civ.lastSReceivedAt = w.now],
                                           <<"getS">>)
               [] subcmd = \h12 ->
                    IF Len(d) < 3 THEN nonePending(w, {"getSWR"})
                    ELSE clearFirstPending([w EXCEPT !.civ.lastSWRReceivedAt = w.now],
                                           <<"getSWR">>)
               [] subcmd = \h15 ->
                    IF Len(d) < 3 THEN nonePending(w, {"getVd"})
                    ELSE clearFirstPending(w, <<"getVd">>)
               [] OTHER -> Ret(w, TRUE)

\* d[0] is read before any length check
decodePreampAGCNREnabled(w, d) ==
    IF Len(d) < 1 THEN Panic(w)
    ELSE LET subcmd == At(d, 0)
             data   == From(d, 1)
         IN  CASE subcmd = \h02 ->
                    IF Len(data) < 1 THEN nonePending(w, {"getPreamp", "setPreamp"})
                    ELSE clearFirstPending([w EXCEPT !.civ.preamp = At(data, 0)],
                                           <<"getPreamp", "setPreamp">>)
               [] subcmd = \h12 ->
                    IF Len(data) < 1 THEN nonePending(w, {"getAGC", "setAGC"})
                    ELSE clearFirstPending([w EXCEPT !.civ.agc = At(data, 0)],
                                           <<"getAGC", "setAGC">>)
               [] subcmd = \h40 ->
                    IF Len(data) < 1 THEN nonePending(w, {"getNREnabled", "setNREnabled"})
                    ELSE clearFirstPending([w EXCEPT !.civ.nrEnabled = (At(data, 0) = 1)],
                                           <<"getNREnabled", "setNREnabled">>)
               [] OTHER -> Ret(w, TRUE)

decodeVFOFreq(w, d) ==
    IF Len(d) < 2
    THEN nonePending(w, {"getMainVFOFreq", "getSubVFOFreq", "setSubVFOFreq"})
    ELSE LET f == decodeFreqData(From(d, 1))
         IN  IF At(d, 0) = \h01
             THEN clearFirstPending([w EXCEPT !.civ.subFreq = f],
                                    <<"getSubVFOFreq", "setSubVFOFreq">>)
             ELSE clearFirstPending(relocateBand([w EXCEPT !.civ.freq = f]),
                                    <<"getMainVFOFreq", "setMainVFOFreq">>)

decodeVFOMode(w, d) ==
    IF Len(d) < 2
    THEN nonePending(w, {"getMainVFOMode", "getSubVFOMode", "setSubVFOMode"})
    ELSE LET operatingModeIdx == modeIdxOf(At(d, 1), -1)
             dataMode  == Len(d) > 2 /\ At(d, 2) # 0
             filterIdx == IF Len(d) > 3 THEN decodeFilterValueToFilterIdx(At(d, 3))
                          ELSE -1
         IN  IF At(d, 0) = \h01
             THEN LET w1 == [w EXCEPT !.civ.subOperatingModeIdx = operatingModeIdx,
                                      !.civ.subDataMode = dataMode,
                                      !.civ.subFilterIdx = filterIdx]
                  IN  IF tableLookupPanics(operatingModeIdx, filterIdx) THEN Panic(w1)
                      ELSE clearFirstPending(w1, <<"getSubVFOMode", "setSubVFOMode">>)
             ELSE LET w1 == [w EXCEPT !.civ.operatingModeIdx = operatingModeIdx,
                                      !.civ.dataMode = dataMode,
                                      !.civ.filterIdx =
                                          IF filterIdx >= 0 THEN filterIdx ELSE @]
                  IN  IF tableLookupPanics(operatingModeIdx, w1.civ.filterIdx)
                      THEN Panic(w1)
                      ELSE clearFirstPending(w1, <<"getMainVFOMode">>)

\* the framing check of decode
wellFramed(d) ==
    ~(Len(d) < 6 \/ At(d, 0) # \hFE \/ At(d, 1) # \hFE \/ At(d, Len(d) - 1) # \hFD)

\* the switch of decode on d[4], run with state.mutex held
decodeSwitch(w, cmd, payload) ==
    CASE cmd \in {\h00, \h03, \h05} -> decodeFreq(w, payload)
      [] cmd \in {\h01, \h04, \h06} -> decodeMode(w, payload)
      [] cmd = \h02 -> Ret(w, FALSE)
      [] cmd = \h07 -> decodeVFO(w, payload)
      [] cmd = \h0F -> decodeSplit(w, payload)
      [] cmd = \h10 -> decodeTuningStep(w, payload)
      [] cmd = \h1A -> decodeDataModeAndOVF(w, payload)
      [] cmd = \h14 -> decodePowerRFGainSQLNRPwr(w, payload)
      [] cmd = \h1C -> decodeTransmitStatus(w, payload)
      [] cmd = \h15 -> decodeVdSWRS(w, payload)
      [] cmd = \h16 -> decodePreampAGCNREnabled(w, payload)
      [] cmd = \h25 -> decodeVFOFreq(w, payload)
      [] cmd = \h26 -> decodeVFOMode(w, payload)
      [] OTHER -> Ret(w, TRUE)

decode(w, d) ==
    IF ~wellFramed(d) THEN Ret(w, TRUE)
    ELSE LET payload == SubSeq(d, 6, Len(d) - 1)
             locked  == Lock(w)
         IN  Unlock(decodeSwitch(locked, At(d, 4), payload))

---------------------------------------------------------------------------
(* init and the bodies of the background loop *)

\* the requests of init, each returning early on an error
initRequests ==
    <<"getFreq", "getBothVFOFreq", "getBothVFOMode", "getPwr", "getTransmitStatus",
      "getPreamp", "getAGC", "getVd", "getS", "getOVF", "getSWR", "getTuningStep",
      "getRFGain", "getSQL", "getNR", "getNREnabled", "getSplit">>

callGet(w, f) ==
    CASE f = "getFreq" -> getFreq(w)
      [] f = "getBothVFOFreq" -> getBothVFOFreq(w)
      [] f = "getBothVFOMode" -> getBothVFOMode(w)
      [] f = "getPwr" -> getPwr(w)
      [] f = "getTransmitStatus" -> getTransmitStatus(w)
      [] f = "getPreamp" -> getPreamp(w)
      [] f = "getAGC" -> getAGC(w)
      [] f = "getVd" -> getVd(w)
      [] f = "getS" -> getS(w)
      [] f = "getOVF" -> getOVF(w)
      [] f = "getSWR" -> getSWR(w)
      [] f = "getTuningStep" -> getTuningStep(w)
      [] f = "getRFGain" -> getRFGain(w)
      [] f = "getSQL" -> getSQL(w)
      [] f = "getNR" -> getNR(w)
      [] f = "getNREnabled" -> getNREnabled(w)
      [] f = "getSplit" -> getSplit(w)

RECURSIVE initFrom(_, _)
initFrom(w, i) ==
    IF i > Len(initRequests) THEN w
    ELSE LET w1 == callGet(w, initRequests[i])
         IN  IF w1.err THEN w1 ELSE initFrom(w1, i + 1)

\* an init that makes its channels before its queries, and so on failure too
initChannelsFirst(w) ==
    [initFrom([w EXCEPT !.civ.st = TRUE], 1) EXCEPT !.civ.deinitNeeded = TRUE]

\* init(st): on success the channels are made and the loop goroutine is started
init(w) ==
    LET w1 == initFrom([w EXCEPT !.civ.st = TRUE], 1)
    IN  IF w1.err THEN w1 ELSE [w1 EXCEPT !.civ.deinitNeeded = TRUE]

\* the head of the loop: the time to the next retry, computed under the lock
nextPendingCmdTimeout(w) ==
    LET diffs == {Since(w, w.civ.cmds[w.civ.pendingCmds[i]].sentAt) :
                     i \in 1..Len(w.civ.pendingCmds)}
    IN  IF \E diff \in diffs : diff >= commandRetryTimeout THEN 0
        ELSE IF diffs = {} THEN timeHour
        ELSE Min(timeHour, CHOOSE m \in diffs : \A x \in diffs : m <= x)

\* whether the retry branch resends this slot
\* a retry branch that resends whatever is in the pending set
retryDueAlways(w, c) == TRUE

retryDue(w, c) == Since(w, w.civ.cmds[c].sentAt) >= commandRetryTimeout

\* the retry branch: for _, cmd := range s.state.pendingCmds, under the lock
RECURSIVE retryFrom(_, _, _)
retryFrom(w, cmds, i) ==
    IF i > Len(cmds) THEN w
    ELSE retryFrom(IF retryDue(w, cmds[i]) THEN sendCmd(w, cmds[i]) ELSE w, cmds, i + 1)

retryBranch(w) ==
    LET locked == Lock(w)
    IN  Unlock(retryFrom(locked, locked.civ.pendingCmds, 1))

\* a poll that asks for the S-meter and OVF whatever the transmit state is
pollBranchReceiveOnly(w) ==
    LET w0 == touch(w)
        a  == IF /\ ~Pending(w0, "getS")
                 /\ Since(w0, w0.civ.lastSReceivedAt) >= statusPollInterval
              THEN getS(w0) ELSE w0
        w1 == IF /\ ~Pending(a, "getOVF")
                 /\ Since(a, a.civ.lastOVFReceivedAt) >= statusPollInterval
              THEN getOVF(a) ELSE a
    IN  IF /\ ~Pending(w1, "getMainVFOFreq") /\ ~Pending(w1, "getSubVFOFreq")
           /\ Since(w1, w1.civ.lastVFOFreqReceivedAt) >= statusPollInterval
        THEN getBothVFOFreq(w1) ELSE w1

\* a poll that asks for both VFO frequencies whatever is pending
pollBranchVFOAlways(w) ==
    LET w0 == touch(w)
        w1 == IF w0.civ.ptt \/ w0.civ.tune
              THEN IF /\ ~Pending(w0, "getSWR")
                      /\ Since(w0, w0.civ.lastSWRReceivedAt) >= statusPollInterval
                   THEN getSWR(w0) ELSE w0
              ELSE LET a == IF /\ ~Pending(w0, "getS")
                               /\ Since(w0, w0.civ.lastSReceivedAt) >= statusPollInterval
                            THEN getS(w0) ELSE w0
                   IN  IF /\ ~Pending(a, "getOVF")
                          /\ Since(a, a.civ.lastOVFReceivedAt) >= statusPollInterval
                       THEN getOVF(a) ELSE a
    IN  getBothVFOFreq(w1)

\* the status poll branch: s.state is read and the requests are made without the lock
pollBranch(w) ==
    LET w0 == touch(w)
        w1 == IF w0.civ.ptt \/ w0.civ.tune
              THEN IF /\ ~Pending(w0, "getSWR")
                      /\ Since(w0, w0.civ.lastSWRReceivedAt) >= statusPollInterval
                   THEN getSWR(w0) ELSE w0
              ELSE LET a == IF /\ ~Pending(w0, "getS")
                               /\ Since(w0, w0.civ.lastSReceivedAt) >= statusPollInterval
                            THEN getS(w0) ELSE w0
                   IN  IF /\ ~Pending(a, "getOVF")
                          /\ Since(a, a.civ.lastOVFReceivedAt) >= statusPollInterval
                       THEN getOVF(a) ELSE a
    IN  IF /\ ~Pending(w1, "getMainVFOFreq") /\ ~Pending(w1, "getSubVFOFreq")
           /\ Since(w1, w1.civ.lastVFOFreqReceivedAt) >= statusPollInterval
        THEN getBothVFOFreq(w1) ELSE w1

\* the callbacks given to time.AfterFunc
pttTimeoutCallback(w)    == setPTT(w, FALSE)
\* a delayed status callback that asks the radio nothing
delayedStatusSkipped(w) == w

tuneTimeoutCallback(w)   == setTune([touch(w) EXCEPT !.civ.tuneTimeoutTimer = 0], FALSE)
delayedStatusCallback(w) == getTransmitStatus(w)

---------------------------------------------------------------------------
(* Steps *)

\* the world a handler starts in; the loop goroutine itself never finds the loop waiting
World(task) ==
    [civ |-> civ, civBands |-> civBands, timers |-> timers, now |-> now,
     streamDown |-> streamDown, wire |-> <<>>, ret |-> TRUE, err |-> FALSE,
     panic |-> FALSE, locked |-> FALSE, unlocked |-> FALSE, stuck |-> FALSE,
     loopWaiting |-> (task # "loop" /\ loop.pc = "select"), woke |-> FALSE]

offPacket == prepPacket("setPTT", <<0>>)

\* the history kept for the transmit timeout: since when the mirror says ptt, and
\* whether a setPTT(off) has been handed to the stream since then
Observe(w) ==
    LET rises == w.civ.ptt /\ ~civ.ptt
        off   == \E i \in 1..Len(w.wire) : w.wire[i].cmd = offPacket
    IN  [pttSince   |-> IF rises THEN now ELSE IF w.civ.ptt THEN obs.pttSince ELSE ZeroTime,
         pttOffSent |-> IF ~w.civ.ptt THEN FALSE
                        ELSE IF rises THEN off ELSE obs.pttOffSent \/ off]

\* store what the handler left
Commit(w, task, op, arg) ==
    /\ civ' = w.civ
    /\ civBands' = w.civBands
    /\ timers' = w.timers
    /\ wire' = w.wire
    /\ panicked' = w.panic
    /\ last' = [task |-> task, op |-> op, arg |-> arg, ret |-> w.ret, err |-> w.err,
                unlocked |-> w.unlocked, held |-> w.locked, stuck |-> w.stuck]
    /\ obs' = Observe(w)
    /\ UNCHANGED statusLog

\* a new pending command wakes the loop out of its select
Woken(w) == IF w.woke THEN [loop EXCEPT !.pc = "top"] ELSE loop

Spend(kind) == budget' = [budget EXCEPT ![kind] = @ + 1]

Running == ~panicked

\* an external caller (keyboard, rigctld glue) runs request f; no lock is taken
External(op, arg, w) ==
    /\ Running
    /\ Commit(w, "ext", op, arg)
    /\ loop' = Woken(w)
    /\ Spend("req")
    /\ UNCHANGED <<now, deinitPc, streamDown>>

CallGetS == External("getS", <<>>, getS(World("ext")))
CallSetMainVFOFreq(f) == External("setMainVFOFreq", <<f>>, setMainVFOFreq(World("ext"), f))
CallSetPTT(enable) == External("setPTT", <<enable>>, setPTT(World("ext"), enable))
CallSetTune(enable) == External("setTune", <<enable>>, setTune(World("ext"), enable))
CallSetSQL(level) == External("setSQL", <<level>>, setSQL(World("ext"), level))
CallSetPwr(level) == External("setPwr", <<level>>, setPwr(World("ext"), level))
CallIncTuningStep == External("incTuningStep", <<>>, incTuningStep(World("ext")))
CallDecTuningStep == External("decTuningStep", <<>>, decTuningStep(World("ext")))
CallIncOperatingMode == External("incOperatingMode", <<>>, incOperatingMode(World("ext")))
CallDecOperatingMode == External("decOperatingMode", <<>>, decOperatingMode(World("ext")))
CallIncFilter == External("incFilter", <<>>, incFilter(World("ext")))
CallDecFilter == External("decFilter", <<>>, decFilter(World("ext")))
CallSetSplit(mode) == External("setSplit", <<mode>>, setSplit(World("ext"), mode))
CallToggleSplit == External("toggleSplit", <<>>, toggleSplit(World("ext")))
CallIncFreq == External("incFreq", <<>>, incFreq(World("ext")))
CallDecFreq ==
    \E width \in uintWidths, d0 \in 0..9 :
        External("decFreq", <<>>, decFreq(World("ext"), width, d0))
CallSetNR(level) == External("setNR", <<level>>, setNR(World("ext"), level))
CallIncBand == External("incBand", <<>>, incBand(World("ext")))
CallDecBand == External("decBand", <<>>, decBand(World("ext")))

\* init(st), called when the serial stream is ready and no loop is running
CallInit ==
    /\ Running
    /\ loop.pc \in {"idle", "done"}
    /\ deinitPc = "idle"
    /\ LET w == init(World("init"))
       IN  /\ Commit(w, "init", "init", <<>>)
           /\ loop' = IF w.err THEN loop
                      ELSE [pc |-> "top", nextPendingCmdTimeout |-> 0, selectAt |-> 0]
    /\ Spend("init")
    /\ UNCHANGED <<now, deinitPc, streamDown>>

\* a deinit that clears deinitNeeded and st without the exchange with the loop
CallDeinitNoWait ==
    /\ Running
    /\ deinitPc = "idle"
    /\ LET w == World("deinit")
       IN  IF civ.deinitNeeded
           THEN Commit([w EXCEPT !.civ.deinitNeeded = FALSE, !.civ.st = FALSE],
                       "deinit", "deinit.return", <<>>)
           ELSE Commit(w, "deinit", "deinit", <<>>)
    /\ Spend("deinit")
    /\ UNCHANGED <<now, loop, deinitPc, streamDown>>

\* deinit(): returns at once when deinitNeeded is nil, else blocks on the send
CallDeinit ==
    /\ Running
    /\ deinitPc = "idle"
    /\ Commit(World("deinit"), "deinit", "deinit", <<>>)
    /\ deinitPc' = IF civ.deinitNeeded THEN "send" ELSE "idle"
    /\ Spend("deinit")
    /\ UNCHANGED <<now, loop, streamDown>>

\* the select takes <-s.deinitNeeded: the loop goes on to send deinitFinished
LoopDeinit ==
    /\ Running
    /\ loop.pc = "select"
    /\ deinitPc = "send"
    /\ loop' = [loop EXCEPT !.pc = "ack"]
    /\ deinitPc' = "recv"
    /\ UNCHANGED <<civ, civBands, timers, now, panicked, streamDown, wire, last, obs,
                   budget, statusLog>>

\* deinitFinished is passed: the loop returns, deinit clears deinitNeeded and st
DeinitFinish ==
    /\ Running
    /\ loop.pc = "ack"
    /\ deinitPc = "recv"
    /\ LET w == World("deinit")
       IN  Commit([w EXCEPT !.civ.deinitNeeded = FALSE, !.civ.st = FALSE],
                  "deinit", "deinit.return", <<>>)
    /\ loop' = [loop EXCEPT !.pc = "done"]
    /\ deinitPc' = "idle"
    /\ UNCHANGED <<now, streamDown, budget>>

\* the serial stream breaks: from now on st.send returns an error
StreamBreaks ==
    /\ Running
    /\ ~streamDown
    /\ streamDown' = TRUE
    /\ UNCHANGED <<civ, civBands, timers, now, loop, deinitPc, panicked, wire, last, obs,
                   budget, statusLog>>

\* the head of the loop, up to the select
LoopTop ==
    /\ Running
    /\ loop.pc = "top"
    /\ LET w == Lock(World("loop"))
       IN  /\ Commit(Unlock(w), "loop", "loop.top", <<>>)
           /\ loop' = [pc |-> "select",
                       nextPendingCmdTimeout |-> nextPendingCmdTimeout(w),
                       selectAt |-> now]
    /\ UNCHANGED <<now, deinitPc, streamDown, budget>>

\* the select takes <-time.After(statusPollInterval)
LoopPoll ==
    /\ Running
    /\ loop.pc = "select"
    /\ now - loop.selectAt >= statusPollInterval
    /\ Commit(pollBranch(World("loop")), "loop", "loop.poll", <<>>)
    /\ loop' = [loop EXCEPT !.pc = "top"]
    /\ UNCHANGED <<now, deinitPc, streamDown, budget>>

\* the select takes <-time.After(nextPendingCmdTimeout)
LoopRetry ==
    /\ Running
    /\ loop.pc = "select"
    /\ now - loop.selectAt >= loop.nextPendingCmdTimeout
    /\ Commit(retryBranch(World("loop")), "loop", "loop.retry", <<>>)
    /\ loop' = [loop EXCEPT !.pc = "top"]
    /\ UNCHANGED <<now, deinitPc, streamDown, budget>>

\* a timer reaches its deadline: the runtime runs its callback in a goroutine
TimerFires(h, kind, op, w) ==
    /\ Running
    /\ timers[h].live
    /\ timers[h].kind = kind
    /\ timers[h].deadline <= now
    /\ Commit(w, "timer", op, <<h>>)
    /\ loop' = Woken(w)
    /\ UNCHANGED <<now, deinitPc, streamDown, budget>>

Fired(h) == [World("timer") EXCEPT !.timers[h].live = FALSE]

PttTimeoutFires(h) == TimerFires(h, "ptt", "pttTimeout", pttTimeoutCallback(Fired(h)))
TuneTimeoutFires(h) == TimerFires(h, "tune", "tuneTimeout", tuneTimeoutCallback(Fired(h)))
DelayedStatusFires(h) ==
    TimerFires(h, "status", "delayedStatus", delayedStatusCallback(Fired(h)))

\* two delayed status queries are due: the runtime runs both callbacks, each in
\* a goroutine of its own, at the same time
DelayedStatusRace(h1, h2) ==
    /\ Running
    /\ h1 < h2
    /\ \A h \in {h1, h2} :
           timers[h].live /\ timers[h].kind = "status" /\ timers[h].deadline <= now
    /\ LET w == getTransmitStatusTwice([World("timer") EXCEPT !.timers[h1].live = FALSE,
                                                              !.timers[h2].live = FALSE])
       IN  /\ Commit(w, "timer", "delayedStatus.twice", <<h1, h2>>)
           /\ loop' = Woken(w)
    /\ UNCHANGED <<now, deinitPc, streamDown, budget>>

\* the serial stream delivers a packet to decode
Decode(d) ==
    /\ Running
    /\ civ.st
    /\ LET w == decode(World("decode"), d)
       IN  /\ Commit(w, "decode", "decode", d)
           /\ loop' = Woken(w)
    /\ Spend("pkt")
    /\ UNCHANGED <<now, deinitPc, streamDown>>

\* the clock advances by d; a live timer fires at its deadline, not after it
Advance(d) ==
    /\ Running
    /\ \A h \in 1..Len(timers) : timers[h].live => timers[h].deadline >= now + d
    /\ now' = now + d
    /\ Spend("adv")
    /\ UNCHANGED <<civ, civBands, timers, loop, deinitPc, panicked, streamDown, wire,
                   last, obs, statusLog>>

---------------------------------------------------------------------------
(* Inputs *)

fromRadio(body) == <<\hFE, \hFE, controllerAddress, civAddress>> \o body \o <<\hFD>>

pktS        == fromRadio(<<\h15, \h02, \h00, \h50>>)
pktSQL      == fromRadio(<<\h14, \h03, \h00, \h50>>)
pktPwr      == fromRadio(<<\h14, \h0A, \h00, \h50>>)
pktAck      == fromRadio(<<OK>>)
pktPttOn    == fromRadio(<<\h1C, \h00, \h01>>)
pktPttOff   == fromRadio(<<\h1C, \h00, \h00>>)
pktTuning   == fromRadio(<<\h1C, \h01, \h02>>)
pktTuneDone == fromRadio(<<\h1C, \h01, \h01>>)
pktOp02     == fromRadio(<<\h02, \h00>>)
pktShortS   == fromRadio(<<\h15, \h02>>)
pktMainFreq == fromRadio(<<\h25, \h00, \h00, \h00, \h25, \h14, \h00>>)
pktUnframed == <<\hFE, \hFE, controllerAddress, civAddress, \h15, \h02, \h00, \h50>>

Packets == {pktS, pktSQL, pktPwr, pktAck, pktPttOn, pktPttOff, pktTuning, pktTuneDone,
            pktOp02, pktShortS, pktMainFreq, pktUnframed}

\* what the radio answers while only the meter is asked for
PacketsRetry == {pktS, pktShortS}

\* what the radio reports about transmitting and tuning
PacketsTransmit == {pktPttOn, pktPttOff, pktTuning, pktTuneDone}

\* what the radio answers to a frequency being set
PacketsFreq == {pktAck, pktMainFreq}

\* frequency reports: 14,200,000 Hz (20 m) and 5,000,000 Hz (in no band) on opcode
\* 0x03, 18,100,000 Hz (17 m) by transceive, 433,000,000 Hz (70 cm) for the main VFO
pktFreq20m    == fromRadio(<<\h03, \h00, \h00, \h20, \h14, \h00>>)
pktFreqNoBand == fromRadio(<<\h03, \h00, \h00, \h00, \h05, \h00>>)
pktFreq17m    == fromRadio(<<\h00, \h00, \h00, \h10, \h18, \h00>>)
pktFreq70cm   == fromRadio(<<\h25, \h00, \h00, \h00, \h00, \h33, \h04>>)

\* meter and frequency reports: SWR, OVF, the sub VFO at 7,074,000 Hz
pktSWR     == fromRadio(<<\h15, \h12, \h00, \h48>>)
pktOVF     == fromRadio(<<\h1A, \h09, \h00>>)
pktSubFreq == fromRadio(<<\h25, \h01, \h00, \h40, \h07, \h07, \h00>>)

PacketsPoll == {pktS, pktSWR, pktOVF, pktPttOn, pktTuning, pktMainFreq, pktSubFreq}

\* packets that end before the data their command is decoded from
pktShortFreq     == fromRadio(<<\h03, \h00>>)
pktShortMode     == fromRadio(<<\h04>>)
pktShortSplit    == fromRadio(<<\h0F>>)
pktShortLevel    == fromRadio(<<\h14, \h03, \h00>>)
pktShortStatus   == fromRadio(<<\h1C, \h00>>)
pktShortDataMode == fromRadio(<<\h1A, \h06, \h01>>)
pktShortPreamp   == fromRadio(<<\h16, \h02>>)
pktShortVFOFreq  == fromRadio(<<\h25, \h00>>)
pktShortVFOMode  == fromRadio(<<\h26, \h00>>)

PacketsShort == {pktShortFreq, pktShortMode, pktShortSplit, pktShortLevel,
                 pktShortStatus, pktShortS, pktShortDataMode, pktShortPreamp,
                 pktShortVFOFreq, pktShortVFOMode}

\* minimal packets: an opcode that takes a subcommand, and nothing after it
pktBare14 == fromRadio(<<\h14>>)
pktBare15 == fromRadio(<<\h15>>)
pktBare16 == fromRadio(<<\h16>>)
pktBare1A == fromRadio(<<\h1A>>)

PacketsBare == {pktBare14, pktBare15, pktBare16, pktBare1A}

\* frequencies with every digit position in use, up to the largest the model's
\* integers hold
FreqsWide == {0, 9, 10, 30000, 14250000, 123456789, 470000000, 909090909,
              999999999, 1000000000, 1090909090, 1234567890, 2109876543,
              2147483647}

\* the radio reporting frequency f for its main VFO
pktMainFreqOf(f) == fromRadio(<<\h25, \h00>> \o encodeFreqData(f))

PacketsBand == {pktFreq20m, pktFreqNoBand, pktFreq17m, pktFreq70cm}

Freqs  == {14250000, 7074000}
Levels == {50}

\* steps of the clock: half a retry timeout and a whole one
StepsRetry == {commandRetryTimeout \div 2, commandRetryTimeout}

\* steps of the clock: up to the delayed status query, the tune and the ptt timeout
StepsTransmit == {delayedStatusQuery, tuneTimeout, pttTimeout}

---------------------------------------------------------------------------
(* The specifications *)

Init ==
    /\ civ = civZero
    /\ civBands = civBandsInit
    /\ timers = <<>>
    /\ now = 0
    /\ loop = [pc |-> "idle", nextPendingCmdTimeout |-> 0, selectAt |-> 0]
    /\ deinitPc = "idle"
    /\ panicked = FALSE
    /\ streamDown = FALSE
    /\ wire = <<>>
    /\ last = [task |-> "none", op |-> "none", arg |-> <<>>, ret |-> TRUE, err |-> FALSE,
               unlocked |-> FALSE, held |-> FALSE, stuck |-> FALSE]
    /\ obs = [pttSince |-> ZeroTime, pttOffSent |-> FALSE]
    /\ budget = [req |-> 0, pkt |-> 0, adv |-> 0, init |-> 0, deinit |-> 0]
    /\ statusLog = [ticker |-> FALSE, loopPc |-> "none", stopPc |-> "idle",
                    starts |-> 0, stops |-> 0, ticks |-> 0]

\* init and deinit, and the loop goroutine's part in them
Lifecycle ==
    \/ budget.init < MaxInits /\ CallInit
    \/ budget.deinit < MaxInits /\ CallDeinit
    \/ LoopDeinit
    \/ DeinitFinish

\* the controller from init on, with its background loop: the meter is asked
\* for, the radio answers or stays silent, the clock moves in retry timeouts
NextRetry ==
    \/ budget.init < MaxInits /\ CallInit
    \/ LoopTop
    \/ LoopPoll
    \/ LoopRetry
    \/ budget.pkt < MaxPkt /\ \E d \in PacketsRetry : Decode(d)
    \/ budget.adv < MaxAdvance /\ \E d \in StepsRetry : Advance(d)
    \/ budget.req < MaxReq /\ CallGetS

SpecRetry == Init /\ [][NextRetry]_vars

\* transmitting and tuning: the requests, the radio's reports, the timers
NextTransmit ==
    \/ budget.init < MaxInits /\ CallInit
    \/ LoopTop
    \/ LoopPoll
    \/ LoopRetry
    \/ \E h \in 1..Len(timers) : PttTimeoutFires(h)
    \/ \E h \in 1..Len(timers) : TuneTimeoutFires(h)
    \/ \E h \in 1..Len(timers) : DelayedStatusFires(h)
    \/ budget.pkt < MaxPkt /\ \E d \in PacketsTransmit : Decode(d)
    \/ budget.adv < MaxAdvance /\ \E d \in StepsTransmit : Advance(d)
    \/ budget.req < MaxReq /\ \E e \in BOOLEAN : CallSetPTT(e)
    \/ budget.req < MaxReq /\ \E e \in BOOLEAN : CallSetTune(e)

SpecTransmit == Init /\ [][NextTransmit]_vars

\* requests and the radio's packets, over every kind of packet
NextDecode ==
    \/ Lifecycle
    \/ LoopTop
    \/ LoopRetry
    \/ budget.pkt < MaxPkt /\ \E d \in Packets : Decode(d)
    \/ budget.req < MaxReq /\ CallGetS
    \/ budget.req < MaxReq /\ \E f \in Freqs : CallSetMainVFOFreq(f)
    \/ budget.req < MaxReq /\ \E l \in Levels : CallSetSQL(l)
    \/ budget.req < MaxReq /\ \E l \in Levels : CallSetPwr(l)

SpecDecode == Init /\ [][NextDecode]_vars

\* the frequency of the main VFO is set and the radio answers
NextFreq ==
    \/ Lifecycle
    \/ LoopTop
    \/ LoopRetry
    \/ budget.pkt < MaxPkt /\ \E d \in PacketsFreq : Decode(d)
    \/ budget.req < MaxReq /\ \E f \in Freqs : CallSetMainVFOFreq(f)

SpecFreq == Init /\ [][NextFreq]_vars

\* the radio sends packets that are too short while requests are pending
NextShort ==
    \/ budget.init < MaxInits /\ CallInit
    \/ LoopTop
    \/ LoopRetry
    \/ budget.adv < MaxAdvance /\ Advance(commandRetryTimeout)
    \/ budget.pkt < MaxPkt /\ \E d \in PacketsShort : Decode(d)
    \/ budget.req < MaxReq /\ CallSetPTT(TRUE)

SpecShort == Init /\ [][NextShort]_vars

\* the radio sends packets of every kind, down to the bare opcode
NextBare ==
    \/ budget.init < MaxInits /\ CallInit
    \/ budget.pkt < MaxPkt /\ \E d \in PacketsBare \cup PacketsShort \cup Packets : Decode(d)
    \/ budget.req < MaxReq /\ CallGetS

SpecBare == Init /\ [][NextBare]_vars

\* requests of many kinds, and the radio's answers
NextCatalogue ==
    \/ budget.init < MaxInits /\ CallInit
    \/ budget.pkt < MaxPkt /\ \E d \in Packets : Decode(d)
    \/ budget.req < MaxReq /\ CallGetS
    \/ budget.req < MaxReq /\ \E f \in Freqs : CallSetMainVFOFreq(f)
    \/ budget.req < MaxReq /\ \E e \in BOOLEAN : CallSetPTT(e)
    \/ budget.req < MaxReq /\ \E e \in BOOLEAN : CallSetTune(e)
    \/ budget.req < MaxReq /\ \E l \in Levels : CallSetSQL(l)
    \/ budget.req < MaxReq /\ \E l \in Levels : CallSetPwr(l)
    \/ budget.req < MaxReq /\ \E l \in Levels : CallSetNR(l)
    \/ budget.req < MaxReq /\ CallIncBand

SpecCatalogue == Init /\ [][NextCatalogue]_vars

\* the status poll: the loop, the clock, and the reports that clear the slots
NextPoll ==
    \/ budget.init < MaxInits /\ CallInit
    \/ LoopTop
    \/ LoopPoll
    \/ LoopRetry
    \/ budget.pkt < MaxPkt /\ \E d \in PacketsPoll : Decode(d)
    \/ budget.adv < MaxAdvance /\ Advance(statusPollInterval)

SpecPoll == Init /\ [][NextPoll]_vars

\* one command is requested again and again while the loop retries it
NextLatest ==
    \/ budget.init < MaxInits /\ CallInit
    \/ LoopTop
    \/ LoopRetry
    \/ budget.adv < MaxAdvance /\ Advance(commandRetryTimeout)
    \/ budget.pkt < MaxPkt /\ Decode(pktAck)
    \/ budget.req < MaxSame /\ \E f \in Freqs : CallSetMainVFOFreq(f)

SpecLatest == Init /\ [][NextLatest]_vars

\* the radio reports tuning, and the delayed status queries run
\* S-meter replies carrying the reading r as four packed decimal digits
SReadings    == {0, 1, 60, 119, 120, 121, 180, 240, 241}
pktSOf(r)    == fromRadio(<<\h15, \h02,
                            (((r \div 1000) % 10) * 16) + ((r \div 100) % 10),
                            (((r \div 10) % 10) * 16) + (r % 10)>>)
PacketsMeter == {pktSOf(r) : r \in SReadings}

NextMeter ==
    \/ budget.init < MaxInits /\ CallInit
    \/ LoopTop
    \/ LoopPoll
    \/ budget.pkt < MaxPkt /\ \E d \in PacketsMeter : Decode(d)
    \/ budget.adv < MaxAdvance /\ Advance(statusPollInterval)

SpecMeter == Init /\ [][NextMeter]_vars

\* tuning-step replies carrying the index b
TuningSteps      == {0, 1, 12, 13, 14, \h13, 255}
pktTuningStep(b) == fromRadio(<<\h10, b>>)

NextStep ==
    \/ budget.init < MaxInits /\ CallInit
    \/ budget.pkt < MaxPkt /\ \E b \in TuningSteps : Decode(pktTuningStep(b))
    \/ budget.req < MaxReq /\ CallIncTuningStep
    \/ budget.req < MaxReq /\ CallDecTuningStep

SpecStep == Init /\ [][NextStep]_vars

\* mode replies: 0x26 for either VFO, with a known or an unknown mode code,
\* with and without the filter byte; 0x04 with an unknown mode code
pktMainModeUSB     == fromRadio(<<\h26, \h00, \h01, \h00, \h02>>)
pktMainModeDV      == fromRadio(<<\h26, \h00, \h17, \h00, \h03>>)
pktMainModeNoFil   == fromRadio(<<\h26, \h00, \h03>>)
pktMainModeUnknown == fromRadio(<<\h26, \h00, \h22, \h00, \h01>>)
pktSubModeCW       == fromRadio(<<\h26, \h01, \h03, \h00, \h01>>)
pktSubModeNoFil    == fromRadio(<<\h26, \h01, \h01>>)
pktModeUnknown     == fromRadio(<<\h04, \h22, \h01>>)
PacketsMode == {pktMainModeUSB, pktMainModeDV, pktMainModeNoFil, pktMainModeUnknown,
                pktSubModeCW, pktSubModeNoFil, pktModeUnknown}

NextMode ==
    \/ budget.init < MaxInits /\ CallInit
    \/ budget.pkt < MaxPkt /\ \E d \in PacketsMode : Decode(d)
    \/ budget.req < MaxReq /\ CallIncOperatingMode
    \/ budget.req < MaxReq /\ CallDecOperatingMode
    \/ budget.req < MaxReq /\ CallIncFilter
    \/ budget.req < MaxReq /\ CallDecFilter

SpecMode == Init /\ [][NextMode]_vars

NextPtt ==
    \/ budget.init < MaxInits /\ CallInit
    \/ \E h \in 1..Len(timers) : PttTimeoutFires(h)
    \/ budget.pkt < MaxPkt /\ \E d \in {pktPttOn, pktPttOff} : Decode(d)
    \/ budget.adv < MaxAdvance /\ \E d \in {commandRetryTimeout, pttTimeout} : Advance(d)
    \/ budget.req < MaxSame /\ \E e \in BOOLEAN : CallSetPTT(e)

SpecPtt == Init /\ [][NextPtt]_vars

NextReconnect ==
    \/ budget.init < MaxSessions /\ CallInit
    \/ budget.deinit < MaxInits /\ CallDeinit
    \/ LoopDeinit
    \/ DeinitFinish
    \/ LoopTop
    \/ LoopRetry
    \/ budget.adv < MaxAdvance /\ Advance(commandRetryTimeout)
    \/ budget.req < MaxReq /\ CallSetPTT(TRUE)

SpecReconnect == Init /\ [][NextReconnect]_vars

NextLock ==
    \/ budget.init < MaxInits /\ CallInit
    \/ LoopTop
    \/ LoopPoll
    \/ LoopRetry
    \/ budget.pkt < MaxPkt /\ \E d \in {pktPttOn, pktPttOff, pktS} : Decode(d)
    \/ budget.adv < MaxAdvance /\ Advance(commandRetryTimeout)
    \/ budget.req < MaxReq /\ CallGetS

SpecLock == Init /\ [][NextLock]_vars

NextDeinit ==
    \/ budget.init < MaxInits /\ CallInit
    \/ budget.deinit < MaxSame /\ CallDeinit
    \/ LoopDeinit
    \/ DeinitFinish
    \/ LoopTop
    \/ LoopPoll
    \/ LoopRetry
    \/ StreamBreaks
    \/ budget.adv < MaxAdvance /\ \E d \in StepsRetry : Advance(d)

\* the loop goroutine runs on, the select takes a ready case at random, and the
\* caller of deinit is there to receive deinitFinished
SpecDeinit ==
    /\ Init /\ [][NextDeinit]_vars
    /\ WF_vars(LoopTop) /\ SF_vars(LoopDeinit) /\ WF_vars(DeinitFinish)

\* the radio reports the squelch level with the data bytes of the last setSQL
LevelsAll == 0..255
EchoSQL ==
    /\ Len(civ.cmds["setSQL"].cmd) = 9
    /\ Decode(fromRadio(<<\h14, \h03>> \o SubSeq(civ.cmds["setSQL"].cmd, 7, 8)))

NextLevel ==
    \/ budget.init < MaxInits /\ CallInit
    \/ budget.req < MaxReq /\ \E n \in LevelsAll : CallSetSQL(n)
    \/ budget.pkt < MaxPkt /\ EchoSQL

SpecLevel == Init /\ [][NextLevel]_vars

\* the radio reports the split mode with the data byte of the last setSplit
SplitModes == {splitModeOff, splitModeOn, splitModeDUPMinus, splitModeDUPPlus}
EchoSplit ==
    /\ Len(civ.cmds["setSplit"].cmd) = 7
    /\ Decode(fromRadio(<<\h0F, civ.cmds["setSplit"].cmd[6]>>))

NextSplit ==
    \/ budget.init < MaxInits /\ CallInit
    \/ budget.req < MaxSame /\ \E m \in SplitModes : CallSetSplit(m)
    \/ budget.req < MaxSame /\ CallToggleSplit
    \/ budget.pkt < MaxPkt /\ EchoSplit
    \/ LoopTop
    \/ LoopRetry
    \/ budget.adv < MaxAdvance /\ Advance(commandRetryTimeout)

SpecSplit == Init /\ [][NextSplit]_vars

\* frequency stepping: the tuning step is reported before or after the frequency
PacketsStepFreq == {pktFreq20m, pktTuningStep(1), pktTuningStep(3)}

NextStepFreq ==
    \/ budget.init < MaxInits /\ CallInit
    \/ budget.pkt < MaxPkt /\ \E d \in PacketsStepFreq : Decode(d)
    \/ budget.req < MaxReq /\ CallIncFreq
    \/ budget.req < MaxReq /\ CallDecFreq

SpecStepFreq == Init /\ [][NextStepFreq]_vars

NextFail ==
    \/ budget.init < MaxInits /\ CallInit
    \/ StreamBreaks
    \/ LoopTop
    \/ LoopRetry
    \/ budget.adv < MaxAdvance /\ \E d \in StepsRetry : Advance(d)
    \/ budget.req < MaxReq /\ \E e \in BOOLEAN : CallSetPTT(e)

SpecFail == Init /\ [][NextFail]_vars

(* The status log (statuslog.go): statusLog.ticker is TRUE while s.ticker is  *)
(* not nil; loopPc is where the goroutine running statusLogStruct.loop is:    *)
(* "top" before it evaluates s.ticker.C for its select, "select" blocked in   *)
(* the select, "tick" in update and print, "ack" sending stopFinishedChan,    *)
(* "done" returned, "panic" after a nil pointer dereference; stopPc is where  *)
(* the caller of stopPeriodicPrint is: "send" blocked on stopChan, "recv"     *)
(* waiting for stopFinishedChan.                                              *)
MaxTicks == 2

civUnchanged ==
    UNCHANGED <<civ, civBands, timers, now, loop, deinitPc, panicked, streamDown, wire,
                last, obs, budget>>

\* startPeriodicPrint(), called while no status loop is running
startPeriodicPrint ==
    /\ statusLog.loopPc \in {"none", "done"}
    /\ statusLog.stopPc = "idle"
    /\ statusLog.starts < MaxSessions
    /\ statusLog' = [statusLog EXCEPT !.ticker = TRUE, !.loopPc = "top",
                                      !.starts = @ + 1]
    /\ civUnchanged

\* stopPeriodicPrint() up to its send on stopChan: returns if isActive() is
\* false, else stops the ticker and sets s.ticker to nil
stopPeriodicPrint ==
    /\ statusLog.loopPc # "panic"
    /\ statusLog.stopPc = "idle"
    /\ statusLog.stops < MaxSessions + 1
    /\ statusLog' = IF statusLog.ticker
                    THEN [statusLog EXCEPT !.ticker = FALSE, !.stopPc = "send",
                                           !.stops = @ + 1]
                    ELSE [statusLog EXCEPT !.stops = @ + 1]
    /\ civUnchanged

\* the loop comes to its select and evaluates s.ticker.C
statusLoopSelect ==
    /\ statusLog.loopPc = "top"
    /\ statusLog' = [statusLog EXCEPT !.loopPc = IF statusLog.ticker THEN "select"
                                                 ELSE "panic"]
    /\ civUnchanged

\* a tick is received: update() and print() run
statusLoopTick ==
    /\ statusLog.loopPc = "select"
    /\ statusLog.ticks < MaxTicks
    /\ statusLog' = [statusLog EXCEPT !.loopPc = "tick", !.ticks = @ + 1]
    /\ civUnchanged

\* update() and print() have returned
statusLoopPrinted ==
    /\ statusLog.loopPc = "tick"
    /\ statusLog' = [statusLog EXCEPT !.loopPc = "top"]
    /\ civUnchanged

\* the select takes <-s.stopChan
statusLoopStop ==
    /\ statusLog.loopPc = "select"
    /\ statusLog.stopPc = "send"
    /\ statusLog' = [statusLog EXCEPT !.loopPc = "ack", !.stopPc = "recv"]
    /\ civUnchanged

\* stopFinishedChan is passed: the loop returns, stopPeriodicPrint goes on
statusStopFinished ==
    /\ statusLog.loopPc = "ack"
    /\ statusLog.stopPc = "recv"
    /\ statusLog' = [statusLog EXCEPT !.loopPc = "done", !.stopPc = "idle"]
    /\ civUnchanged

NextStatus ==
    \/ startPeriodicPrint
    \/ stopPeriodicPrint
    \/ statusLoopSelect
    \/ statusLoopTick
    \/ statusLoopPrinted
    \/ statusLoopStop
    \/ statusStopFinished

SpecStatus == Init /\ [][NextStatus]_vars

NextTune ==
    \/ budget.init < MaxInits /\ CallInit
    \/ \E h \in 1..Len(timers) : DelayedStatusFires(h)
    \/ budget.pkt < MaxPkt /\ \E d \in {pktTuning, pktTuneDone} : Decode(d)
    \/ budget.adv < MaxAdvance /\ Advance(delayedStatusQuery)
    \/ budget.req < MaxReq /\ CallSetTune(TRUE)

SpecTune == Init /\ [][NextTune]_vars

NextRace ==
    \/ budget.init < MaxInits /\ CallInit
    \/ LoopTop
    \/ LoopRetry
    \/ \E h \in 1..Len(timers) : DelayedStatusFires(h)
    \/ \E h1, h2 \in 1..Len(timers) : DelayedStatusRace(h1, h2)
    \/ budget.pkt < MaxPkt /\ \E d \in PacketsTransmit : Decode(d)
    \/ budget.adv < MaxAdvance /\ Advance(delayedStatusQuery)

SpecRace == Init /\ [][NextRace]_vars

\* the main VFO is set to a frequency, and the radio reports frequencies
NextCodec ==
    \/ budget.init < MaxInits /\ CallInit
    \/ budget.req < MaxReq /\ \E f \in FreqsWide : CallSetMainVFOFreq(f)
    \/ budget.pkt < MaxPkt /\ \E f \in FreqsWide : Decode(pktMainFreqOf(f))

SpecCodec == Init /\ [][NextCodec]_vars

\* the radio reports frequencies and the band is stepped up or down
NextBand ==
    \/ budget.init < MaxInits /\ CallInit
    \/ budget.pkt < MaxPkt /\ \E d \in PacketsBand : Decode(d)
    \/ budget.req < MaxReq /\ CallIncBand
    \/ budget.req < MaxReq /\ CallDecBand

SpecBand == Init /\ [][NextBand]_vars

\* init and deinit around the running loop, with the clock moving
NextLifecycle ==
    \/ Lifecycle
    \/ LoopTop
    \/ LoopPoll
    \/ LoopRetry
    \/ budget.adv < MaxAdvance /\ \E d \in StepsRetry : Advance(d)
    \/ budget.req < MaxReq /\ CallGetS

SpecLifecycle == Init /\ [][NextLifecycle]_vars

---------------------------------------------------------------------------
(* The pending set *)

InPendingCmds(c) == \E i \in 1..Len(civ.pendingCmds) : civ.pendingCmds[i] = c

\* C1: after every operation a command slot is a member of pendingCmds if and
\* only if its pending flag is true, also when the request was made while no
\* serial stream was attached
PendingSetMatchesFlags == \A c \in Slots : InPendingCmds(c) <=> civ.cmds[c].pending

---------------------------------------------------------------------------
(* The retry branch of the loop *)

Sent(c) == civ.cmds[c].sentAt # ZeroTime

Stale(c) == now - civ.cmds[c].sentAt >= commandRetryTimeout

ResentSlots == {wire'[i].slot : i \in 1..Len(wire')}

\* C2: when the loop finds in the pending set a command sent 500 ms ago or
\* earlier, its retry timeout is zero; a pass of the retry branch resends every
\* such command, with the bytes it was sent with and a new send time, and resends
\* no command younger than that; a resent slot stays pending, so that a later
\* pass finds it again, without a cap
RetryResendsStaleOnly ==
    [][/\ (LoopTop /\ \E c \in Slots : Sent(c) /\ InPendingCmds(c) /\ Stale(c))
            => (loop'.nextPendingCmdTimeout = 0)
       /\ LoopRetry =>
            \A c \in {s \in Slots : Sent(s)} :
                IF InPendingCmds(c) /\ Stale(c)
                THEN /\ \E i \in 1..Len(wire') :
                            wire'[i] = [slot |-> c, cmd |-> civ.cmds[c].cmd, locked |-> TRUE]
                     /\ civ'.cmds[c] = [civ.cmds[c] EXCEPT !.pending = TRUE, !.sentAt = now]
                     /\ \E i \in 1..Len(civ'.pendingCmds) : civ'.pendingCmds[i] = c
                ELSE /\ c \notin ResentSlots
                     /\ civ'.cmds[c] = civ.cmds[c]]_vars

\* the retry branch has resent the commands of init, 500 ms old, and has left
\* alone getS, which an external request had sent again 250 ms ago
RetryResentSomeNotAll ==
    /\ last.op = "loop.retry"
    /\ \E i \in 1..Len(wire) : wire[i].slot = "getFreq"
    /\ \A i \in 1..Len(wire) : wire[i].slot # "getS"
    /\ civ.cmds["getS"].pending
    /\ civ.cmds["getS"].sentAt < civ.cmds["getFreq"].sentAt
    /\ civ.cmds["getFreq"].sentAt = now

---------------------------------------------------------------------------
(* Replies of the radio *)

\* a reply of the radio, the slot whose opcode and subopcode it carries, and the
\* other slots with that opcode and subopcode
Answers ==
    {[pkt |-> pktS,        slot |-> "getS",              rivals |-> {}],
     [pkt |-> pktSQL,      slot |-> "getSQL",            rivals |-> {"setSQL"}],
     [pkt |-> pktSQL,      slot |-> "setSQL",            rivals |-> {"getSQL"}],
     [pkt |-> pktPwr,      slot |-> "getPwr",            rivals |-> {"setPwr"}],
     [pkt |-> pktPwr,      slot |-> "setPwr",            rivals |-> {"getPwr"}],
     [pkt |-> pktPttOn,    slot |-> "getTransmitStatus", rivals |-> {"setPTT"}],
     [pkt |-> pktTuning,   slot |-> "getTuneStatus",     rivals |-> {"setTune"}],
     [pkt |-> pktMainFreq, slot |-> "getMainVFOFreq",    rivals |-> {"setMainVFOFreq"}],
     [pkt |-> pktMainFreq, slot |-> "setMainVFOFreq",    rivals |-> {"getMainVFOFreq"}]}

\* C3: when a slot is pending, no other slot of its opcode and subopcode is, and
\* a well-formed full-length packet with that opcode and subopcode is decoded,
\* the slot's pending flag is cleared and the slot leaves the pending set (so
\* that the retry branch, which walks the pending set, does not resend it)
MatchingReplyClearsSlot ==
    [][\A a \in Answers :
          /\ Decode(a.pkt)
          /\ civ.cmds[a.slot].pending
          /\ \A r \in a.rivals : ~civ.cmds[r].pending
          => /\ ~civ'.cmds[a.slot].pending
             /\ \A i \in 1..Len(civ'.pendingCmds) : civ'.pendingCmds[i] # a.slot]_vars

\* C5: when exactly one set slot is pending and the acknowledgement
\* FE FE E0 A4 FB FD is decoded, that slot's pending flag is cleared and the slot
\* leaves the pending set
AckClearsSetSlot ==
    [][\A c \in SetSlots :
          /\ Decode(pktAck)
          /\ \A s \in SetSlots : civ.cmds[s].pending <=> s = c
          => /\ ~civ'.cmds[c].pending
             /\ \A i \in 1..Len(civ'.pendingCmds) : civ'.pendingCmds[i] # c]_vars

\* a slot that was pending before the step and is not after it
ClearedSlots == {c \in Slots : civ.cmds[c].pending /\ ~civ'.cmds[c].pending}

\* C9: decode returns false exactly when the packet clears a pending request of
\* the controller, and true for every other packet
DecodeFalseIffCleared ==
    [][\A d \in Packets : Decode(d) => (last'.ret = FALSE <=> ClearedSlots # {})]_vars

---------------------------------------------------------------------------
(* Setting the frequency *)

mainVFOFreqPacket(data) ==
    <<\hFE, \hFE, \hA4, \hE0, \h25, \h00>> \o data \o <<\hFD>>

SetMainVFOFreqDone(f) == last.op = "setMainVFOFreq" /\ last.arg = <<f>> /\ civ.st

SetMainVFOFreqLeaves(pkt) ==
    /\ civ.cmds["setMainVFOFreq"].cmd = pkt
    /\ wire = <<[slot |-> "setMainVFOFreq", cmd |-> pkt, locked |-> FALSE]>>

\* C4 as stated: setMainVFOFreq(14250000) puts FE FE A4 E0 25 00 00 50 25 14 00 FD
\* into the setMainVFOFreq slot and hands those bytes to the serial stream
FreqBytesAsStated ==
    SetMainVFOFreqDone(14250000) =>
        SetMainVFOFreqLeaves(mainVFOFreqPacket(<<\h00, \h50, \h25, \h14, \h00>>))

\* C4: with radio address 0xA4 and controller address 0xE0,
\* setMainVFOFreq(14250000) puts FE FE A4 E0 25 00 00 00 25 14 00 FD into the
\* setMainVFOFreq slot and hands exactly those bytes to the serial stream: the
\* five data bytes are the ten decimal digits of the frequency, two to a byte,
\* lowest digits first
FreqBytesLittleEndianBCD ==
    /\ SetMainVFOFreqDone(14250000) =>
           SetMainVFOFreqLeaves(mainVFOFreqPacket(<<\h00, \h00, \h25, \h14, \h00>>))
    /\ \A f \in Freqs :
           SetMainVFOFreqDone(f) =>
               /\ Len(wire) = 1
               /\ Len(wire[1].cmd) = 12
               /\ \A k \in 0..4 :
                      wire[1].cmd[7 + k] =
                          ((f \div Pow10(2 * k + 1)) % 10) * 16 + ((f \div Pow10(2 * k)) % 10)

\* setMainVFOFreq(14250000) has just been called with the serial stream attached
\* and the packet has gone out
FreqSent == SetMainVFOFreqDone(14250000) /\ wire # <<>>

---------------------------------------------------------------------------
(* Transmitting and tuning *)

PttTimerArmed(c, t) ==
    /\ c.pttTimeoutTimer # 0
    /\ t[c.pttTimeoutTimer].live
    /\ t[c.pttTimeoutTimer].kind = "ptt"

NoPttTimerLive(t) == \A h \in 1..Len(t) : t[h].kind = "ptt" => ~t[h].live

\* C6: every step leads to a state in which, if the mirrored PTT flag is true, a
\* PTT timeout timer is armed, however the flag became true; and a step that
\* takes the flag from true to false leaves no PTT timeout timer armed
PttImpliesTimerArmed ==
    [][/\ civ'.ptt => PttTimerArmed(civ', timers')
       /\ civ.ptt /\ ~civ'.ptt => NoPttTimerLive(timers')]_vars

\* C7: when the mirrored PTT flag has been true for longer than 10 minutes, the
\* controller has handed a setPTT(off) command to the serial stream
PttTimeoutForcesOff ==
    civ.ptt /\ obs.pttSince # ZeroTime /\ now - obs.pttSince > pttTimeout => obs.pttOffSent

tuneOffPacket == prepPacket("setTune", <<ON>>)

\* C8: when the tune timeout timer expires while the serial stream is attached,
\* the controller hands a setTune(off) command to the stream, whatever the
\* mirrored PTT flag is
TuneTimeoutForcesOff ==
    [][civ.st /\ (\E h \in 1..Len(timers) : TuneTimeoutFires(h))
          => \E i \in 1..Len(wire') : wire'[i].cmd = tuneOffPacket]_vars

---------------------------------------------------------------------------
(* The lock *)

\* C10: decode, the branches of the loop and the timer callbacks access the
\* state mirror only while state.mutex is held
OwnTasksHoldMutex == last.task \in {"decode", "loop", "timer"} => ~last.unlocked

---------------------------------------------------------------------------
(* deinit *)

\* C11: when deinit has returned (after an init that started the loop), the loop
\* has taken the deinit signal and returned, and the controller holds no serial
\* stream; the loop runs, retries and polls only while the stream is held
DeinitWaitsForLoop ==
    /\ last.op = "deinit.return" => loop.pc = "done" /\ ~civ.st /\ ~civ.deinitNeeded
    /\ loop.pc \in {"top", "select", "ack"} => civ.st
    /\ last.task = "loop" => civ.st

\* deinit has returned and a second has passed since: commands are still in the
\* pending set, and the loop, which has returned, neither retries nor polls
DeinitReturnedLoopQuiet ==
    /\ last.op = "deinit.return"
    /\ civ.pendingCmds # <<>>
    /\ now >= statusPollInterval

---------------------------------------------------------------------------
(* Bands *)

\* the indices (from 0) of the bands of the table that contain f
BandsOf(f) == {i \in 0..(Len(civBands) - 1) :
                  civBands[i + 1].freqFrom <= f /\ f <= civBands[i + 1].freqTo}

\* C12: after a frequency report for the main VFO is decoded, bandIdx is the
\* index of the one band that contains freq, or, when no band contains it, a
\* value that is the index of no band of the table
BandIdxIsBandOrSentinel ==
    last.op = "decode" /\ last.arg \in PacketsBand =>
        IF BandsOf(civ.freq) = {} THEN civ.bandIdx \notin 0..(Len(civBands) - 1)
        ELSE BandsOf(civ.freq) = {civ.bandIdx}

\* the frequency carried by the packet in the setMainVFOFreq slot
RequestedFreq(c) == decodeFreqDigits(SubSeq(c.cmds["setMainVFOFreq"].cmd, 7, 11), 0)

\* C13: incBand, called when bandIdx is i, builds a setMainVFOFreq request (and
\* hands it to the stream if one is attached) for band (i+1) mod 12, at the
\* frequency remembered for that band or, if none is, at the band's midpoint;
\* from 14,200,000 Hz the frequency requested lies in 18,068,000..18,168,000
IncBandNextBand ==
    [][CallIncBand =>
         LET n == (civ.bandIdx + 1) % 12
             b == civBands[n + 1]
             f == RequestedFreq(civ')
         IN  /\ Len(civ'.cmds["setMainVFOFreq"].cmd) = 12
             /\ SubSeq(civ'.cmds["setMainVFOFreq"].cmd, 1, 6)
                    = <<\hFE, \hFE, \hA4, \hE0, \h25, \h00>>
             /\ f = IF b.freq # 0 THEN b.freq ELSE (b.freqFrom + b.freqTo) \div 2
             /\ b.freqFrom <= f /\ f <= b.freqTo
             /\ civ.st => /\ Len(wire') = 1
                          /\ wire'[1].cmd = civ'.cmds["setMainVFOFreq"].cmd
             /\ civ.freq = 14200000 /\ civ.bandIdx = 4 => 18068000 <= f /\ f <= 18168000]_vars

\* incBand has been called on 20 m after 17 m had been visited at 18,100,000 Hz:
\* the remembered frequency is requested
IncBandTo17mRemembered ==
    /\ last.op = "incBand"
    /\ civ.freq = 14200000
    /\ civ.bandIdx = 4
    /\ civ.st
    /\ RequestedFreq(civ) = 18100000
    /\ wire # <<>>

---------------------------------------------------------------------------
(* Number encodings *)

\* the decimal digit of n at position k, counted from the units
DigitOf(n, k) == (n \div Pow10(k)) % 10

\* the five data bytes of the packet in the setMainVFOFreq slot
FreqData(c) == SubSeq(c.cmds["setMainVFOFreq"].cmd, 7, 11)

PackedLevel(l) == <<l \div 100, (((l \div 10) % 10) * 16) + (l % 10)>>

\* C15: a level request carries the level as the hundreds digit followed by a
\* byte with the tens in its high nibble and the ones in its low nibble, and a
\* level the radio reports in that form is mirrored as that level
LevelsArePackedDecimal ==
    /\ \A slot \in {"setSQL", "setPwr"} :
           last.op = slot /\ Len(civ.cmds[slot].cmd) = 9 =>
               SubSeq(civ.cmds[slot].cmd, 7, 8) = PackedLevel(last.arg[1])
    /\ \A l \in Levels :
           /\ last.op = "decode" /\ last.arg = fromRadio(<<\h14, \h03>> \o PackedLevel(l))
                  => civ.sqlLevel = l
           /\ last.op = "decode" /\ last.arg = fromRadio(<<\h14, \h0A>> \o PackedLevel(l))
                  => civ.pwrLevel = l

---------------------------------------------------------------------------
(* Malformed packets *)

DecodeNeverFails ==
    last.op = "decode" =>
        /\ ~panicked
        /\ last.arg \in PacketsBare => last.ret \in BOOLEAN

---------------------------------------------------------------------------
(* The command catalogue *)

\* packet p is FE FE, the radio's and the controller's address, the bytes the
\* catalogue holds for command c, some data, FD
FollowsCatalogue(p, c) ==
    /\ Len(p) >= 5 + Len(cmdSeq(c))
    /\ SubSeq(p, 1, 4) = <<\hFE, \hFE, civAddress, controllerAddress>>
    /\ SubSeq(p, 5, 4 + Len(cmdSeq(c))) = cmdSeq(c)
    /\ p[Len(p)] = \hFD

\* C18: the packet built for a command carries the opcode and subopcode the
\* catalogue holds for that command between the addresses and the data; the
\* packet of setNR(level) is FE FE A4 E0 14 06, the two bytes of the level, FD
RequestsFollowCatalogue ==
    /\ \A c \in Slots : civ.cmds[c].cmd # <<>> => FollowsCatalogue(civ.cmds[c].cmd, c)
    /\ last.op = "setNR" /\ ~last.err =>
           civ.cmds["setNR"].cmd = <<\hFE, \hFE, civAddress, controllerAddress, \h14, \h06>>
                                       \o encodeForSend(last.arg[1]) \o <<\hFD>>

\* the same for every slot except setNR
OtherRequestsFollowCatalogue ==
    \A c \in Slots \ {"setNR"} :
        civ.cmds[c].cmd # <<>> => FollowsCatalogue(civ.cmds[c].cmd, c)

---------------------------------------------------------------------------
(* The status poll *)

\* the slots whose packets the step hands to the stream
SentSlots == {wire'[i].slot : i \in 1..Len(wire')}

\* C19: on a status poll, while the PTT or the tune flag is set the only meter
\* request that may be sent is getSWR, and otherwise the only ones are getS and
\* getOVF
PollMetersByTransmitState ==
    [][LoopPoll =>
         IF civ.ptt \/ civ.tune
         THEN "getS" \notin SentSlots /\ "getOVF" \notin SentSlots
         ELSE "getSWR" \notin SentSlots]_vars

\* a poll while transmitting has asked for the SWR, a second after the radio
\* reported it last
PolledSWRWhileTransmitting ==
    /\ last.op = "loop.poll"
    /\ civ.ptt
    /\ \E i \in 1..Len(wire) : wire[i].slot = "getSWR"
    /\ civ.lastSWRReceivedAt # ZeroTime

---------------------------------------------------------------------------
(* The loop's timers *)

\* the time at which the poll case of the select the loop is in, or was last in,
\* becomes ready
PollDueAt(l) == l.selectAt + statusPollInterval

\* C21: the poll tick comes round within a second however often pending commands
\* are retried in between: when the loop goes back to its select after a retry,
\* the poll is due no later than it was due before the retry
PollTickNotPutOff ==
    [][LoopTop /\ last.op = "loop.retry" /\ civ.pendingCmds # <<>>
           => PollDueAt(loop') <= PollDueAt(loop)]_vars

\* the age of the pending command sent longest ago
RECURSIVE OldestAge(_)
OldestAge(cs) ==
    IF cs = <<>> THEN 0
    ELSE LET a == now - civ.cmds[Head(cs)].sentAt
             r == OldestAge(Tail(cs))
         IN  IF a > r THEN a ELSE r

\* C22: with commands pending, the loop's retry timeout is what the oldest of
\* them lacks to commandRetryTimeout (zero if it is there already), so that the
\* loop wakes when that command has been out for 500 ms, not before
RetryTimeoutIsTimeToDeadline ==
    [][LoopTop /\ civ.pendingCmds # <<>>
           => loop'.nextPendingCmdTimeout =
                  IF OldestAge(civ.pendingCmds) >= commandRetryTimeout THEN 0
                  ELSE commandRetryTimeout - OldestAge(civ.pendingCmds)]_vars

---------------------------------------------------------------------------
(* Command slots *)

\* how often slot c is in the pending set
TimesPending(c, cs) == Cardinality({i \in 1..Len(cs) : cs[i] = c})

\* C23: a request for a command that is still pending replaces the bytes in its
\* slot, the slot stays in the pending set once, nothing but a request for that
\* command changes the bytes, and a retry sends the bytes the slot holds: so
\* every retransmission after a second request carries the second request
LatestRequestWins ==
    [][/\ \A f \in Freqs :
              CallSetMainVFOFreq(f) =>
                  /\ civ'.cmds["setMainVFOFreq"].cmd = mainVFOFreqPacket(encodeFreqData(f))
                  /\ civ.st => /\ civ'.cmds["setMainVFOFreq"].pending
                               /\ TimesPending("setMainVFOFreq", civ'.pendingCmds) = 1
       /\ ~(\E f \in Freqs : CallSetMainVFOFreq(f)) =>
              civ'.cmds["setMainVFOFreq"].cmd = civ.cmds["setMainVFOFreq"].cmd
       /\ LoopRetry =>
              \A i \in 1..Len(wire') :
                  wire'[i].slot = "setMainVFOFreq" =>
                      wire'[i].cmd = civ.cmds["setMainVFOFreq"].cmd
       /\ TimesPending("setMainVFOFreq", civ'.pendingCmds) <= 1]_vars

\* after two requests the loop has sent the setMainVFOFreq slot again
SecondRequestResent ==
    /\ last.op = "loop.retry"
    /\ budget.req = 2
    /\ \E i \in 1..Len(wire) :
           /\ wire[i].slot = "setMainVFOFreq"
           /\ wire[i].cmd = mainVFOFreqPacket(encodeFreqData(7074000))
    /\ TimesPending("setMainVFOFreq", civ.pendingCmds) = 1

\* C24: no slot is in the pending set more than once, whichever tasks call
\* sendCmd and however their steps fall
NoSlotPendingTwice == \A c \in Slots : TimesPending(c, civ.pendingCmds) <= 1

\* C25: a packet on opcode 0x1C clears the slot of its own query only: the
\* getTransmitStatus slot goes from pending to not pending on a 0x1C 0x00
\* packet only, the getTuneStatus slot on a 0x1C 0x01 packet only
StatusReplyClearsOwnSlot ==
    [][\A d \in PacketsTransmit :
           Decode(d) =>
               /\ civ.cmds["getTransmitStatus"].pending
                    /\ ~civ'.cmds["getTransmitStatus"].pending => d[6] = \h00
               /\ civ.cmds["getTuneStatus"].pending
                    /\ ~civ'.cmds["getTuneStatus"].pending => d[6] = \h01]_vars

SentSlot(c) == \E i \in 1..Len(wire) : wire[i].slot = c

\* C26: every decoded 'tuning in progress' packet (0x1C 0x01 0x02) sets the
\* tune flag and arms a timer that is due one second later; when that timer
\* fires on an initialised controller, at its deadline, the transmit-status and
\* tune-status queries are sent; and the packet reporting the tune finished,
\* decoded while the tune flag is set, clears the flag, stops the tune-timeout
\* timer and clears its handle
TuningIsFollowedUp ==
    [][/\ Decode(pktTuning) =>
              /\ civ'.tune
              /\ Len(timers') = Len(timers) + 1
              /\ timers'[Len(timers')] = [kind |-> "status",
                                          deadline |-> now + delayedStatusQuery,
                                          live |-> TRUE]
       /\ \A h \in 1..Len(timers) :
              DelayedStatusFires(h) /\ civ.st =>
                  /\ now = timers[h].deadline
                  /\ ~timers'[h].live
                  /\ SentSlot("getTransmitStatus")'
                  /\ SentSlot("getTuneStatus")'
       /\ Decode(pktTuneDone) /\ civ.tune =>
              /\ ~civ'.tune
              /\ civ'.tuneTimeoutTimer = 0
              /\ civ.tuneTimeoutTimer # 0 => ~timers'[civ.tuneTimeoutTimer].live]_vars

TuneFinishedAfterQuery ==
    /\ last.op = "decode" /\ last.arg = pktTuneDone
    /\ ~civ.tune /\ civ.tuneTimeoutTimer = 0
    /\ \E h \in 1..Len(timers) : timers[h].kind = "tune" /\ ~timers[h].live
    /\ \E h \in 1..Len(timers) :
           timers[h].kind = "status" /\ ~timers[h].live /\ timers[h].deadline <= now

\* C27: no packet is written to the serial stream while state.mutex is held
NoSendUnderMutex == \A i \in 1..Len(wire) : ~wire[i].locked

\* the reading an S-meter reply carries, and the level reported for it
IsSReply(d)  == Len(d) = 9 /\ d[5] = \h15 /\ d[6] = \h02
SReadingOf(d) == ((d[7] \div 16) * 1000) + ((d[7] % 16) * 100)
                     + ((d[8] \div 16) * 10) + (d[8] % 16)
SLevelOf(d)  == BCDToSLevel(<<d[7], d[8]>>)

\* C28: the level reported for a decoded S-meter reply follows the scale of
\* BCDToSLevel's comment: reading 0 gives 0, reading 120 gives 9, reading 241
\* gives 18, and no smaller reading gives a higher level
SLevelFollowsScale ==
    last.op = "decode" /\ IsSReply(last.arg) =>
        /\ SReadingOf(last.arg) = 0 => SLevelOf(last.arg) = 0
        /\ SReadingOf(last.arg) = 120 => SLevelOf(last.arg) = 9
        /\ SReadingOf(last.arg) = 241 => SLevelOf(last.arg) = 18
        /\ \A r \in SReadings :
               r <= SReadingOf(last.arg) => SLevelOf(pktSOf(r)) <= SLevelOf(last.arg)

\* C29: the mirrored tuning-step index is in 0..13 in every state, and every
\* setTuningStep request sent by incTuningStep or decTuningStep carries an
\* index in 0..13
TuningStepInRange ==
    /\ civ.tsValue \in 0..13
    /\ last.op \in {"incTuningStep", "decTuningStep"} =>
           \A i \in 1..Len(wire) :
               wire[i].slot = "setTuningStep" => wire[i].cmd[6] \in 0..13

\* C30: in every state the mirrored mode indices are indices of
\* civOperatingModes and the mirrored filter indices are indices of civFilters,
\* and no step has looked either table up out of range
ModeAndFilterIdxInRange ==
    /\ civ.operatingModeIdx \in 0..(Len(civOperatingModes) - 1)
    /\ civ.subOperatingModeIdx \in 0..(Len(civOperatingModes) - 1)
    /\ civ.filterIdx \in 0..(Len(civFilters) - 1)
    /\ civ.subFilterIdx \in 0..(Len(civFilters) - 1)
    /\ ~panicked

LivePttTimers == {h \in 1..Len(timers) : timers[h].kind = "ptt" /\ timers[h].live}

\* C31: at most one PTT timeout timer is outstanding at any time, and a forced
\* setPTT(off) is sent by the timer of the most recent setPTT(on) only
OnePttTimerOutstanding ==
    /\ Cardinality(LivePttTimers) <= 1
    /\ last.op = "pttTimeout" => last.arg[1] = civ.pttTimeoutTimer

\* C32: when an init that follows a completed deinit returns, every command in
\* the pending set is one that this init has sent
NothingPendingFromLastSession ==
    last.op = "init" /\ budget.init > 1 =>
        \A i \in 1..Len(civ.pendingCmds) : SentSlot(civ.pendingCmds[i])

\* C33: no task locks state.mutex while it holds it, and every task that has
\* locked it has unlocked it when its step ends, so the lock is free whenever
\* decode or the loop comes to take it
MutexNeverBlocksForGood == ~last.stuck /\ ~last.held

RequestSentInsideDecode ==
    /\ last.op = "decode" /\ last.arg = pktPttOff
    /\ \E i \in 1..Len(wire) : wire[i].slot = "getVd" /\ wire[i].locked
    /\ ~last.held

\* C34: deinit always returns: an init that fails starts no loop and leaves
\* deinitNeeded nil, a deinit that finds deinitNeeded nil returns at once and
\* changes nothing, and a deinit that has begun the exchange with the loop
\* eventually returns
DeinitAlwaysReturns ==
    /\ [](last.op = "init" /\ last.err => ~civ.deinitNeeded /\ loop.pc \in {"idle", "done"})
    /\ [][CallDeinit /\ ~civ.deinitNeeded =>
              deinitPc' = "idle" /\ civ' = civ /\ wire' = <<>>]_vars
    /\ (deinitPc # "idle") ~> (deinitPc = "idle")

SecondDeinitReturnedAtOnce ==
    /\ last.op = "deinit" /\ budget.deinit = 2
    /\ deinitPc = "idle" /\ loop.pc = "done"

\* C35: a level in 0..255 that setSQL sends and the radio reports back with the
\* same two data bytes is mirrored as that level
LevelRoundTrip ==
    [][EchoSQL /\ last.op = "setSQL" => civ'.sqlLevel = last.arg[1]]_vars

TopLevelEchoed ==
    /\ last.op = "decode" /\ last.arg = fromRadio(<<\h14, \h03, 2, 55>>)
    /\ civ.sqlLevel = 255

SplitAfter(m) ==
    CASE m = splitModeOff      -> splitModeOn
      [] m = splitModeOn       -> splitModeDUPMinus
      [] m = splitModeDUPMinus -> splitModeDUPPlus
      [] m = splitModeDUPPlus  -> splitModeOff

\* C36: when the radio reports the data byte that setSplit(m) has sent, the
\* mirrored split mode becomes m; and the byte toggleSplit has sent makes it the
\* mode after the current one in the cycle off, on, dup-, dup+, off
SplitRoundTrip ==
    [][/\ EchoSplit /\ last.op = "setSplit" => civ'.splitMode = last.arg[1]
       /\ EchoSplit /\ last.op = "toggleSplit" =>
              civ'.splitMode = SplitAfter(civ.splitMode)]_vars

ToggledToDUPPlus ==
    /\ last.op = "decode" /\ last.arg = fromRadio(<<\h0F, \h12>>)
    /\ civ.splitMode = splitModeDUPPlus
    /\ budget.req = 2 /\ budget.pkt = 2

\* the frequency in the setMainVFOFreq slot, as its digits 9..6 and 5..0
RequestedHigh(c) == decodeFreqDigits(SubSeq(c.cmds["setMainVFOFreq"].cmd, 10, 11), 0)
RequestedLow(c)  == decodeFreqDigits(SubSeq(c.cmds["setMainVFOFreq"].cmd, 7, 9), 0)

\* C37: the frequency decFreq requests is not greater than the mirrored
\* frequency, and the frequency incFreq requests is the mirrored frequency plus
\* the tuning step
FreqSteppingInRange ==
    /\ last.op = "decFreq" =>
           \/ RequestedHigh(civ) < civ.freq \div 1000000
           \/ /\ RequestedHigh(civ) = civ.freq \div 1000000
              /\ RequestedLow(civ) <= civ.freq % 1000000
    /\ last.op = "incFreq" =>
           /\ RequestedHigh(civ) = (civ.freq + civ.ts) \div 1000000
           /\ RequestedLow(civ) = (civ.freq + civ.ts) % 1000000

\* C38: a setPTT request made with a stream attached leaves its slot pending,
\* stamped with the time of the call and once in the pending set, and reports
\* the error when the write fails; made with no stream attached it writes
\* nothing and leaves the pending set as it was; and a retry round resends the
\* slot once it has been pending for commandRetryTimeout, whether or not the
\* first write failed
FailedWriteIsRetried ==
    [][/\ \A e \in BOOLEAN :
              CallSetPTT(e) =>
                  IF civ.st
                  THEN /\ civ'.cmds["setPTT"].pending
                       /\ civ'.cmds["setPTT"].sentAt = now
                       /\ TimesPending("setPTT", civ'.pendingCmds) = 1
                       /\ last'.err = streamDown
                  ELSE /\ wire' = <<>>
                       /\ civ'.pendingCmds = civ.pendingCmds
                       /\ ~civ'.cmds["setPTT"].pending
                       /\ ~last'.err
       /\ LoopRetry /\ civ.cmds["setPTT"].pending
                    /\ now - civ.cmds["setPTT"].sentAt >= commandRetryTimeout =>
              SentSlot("setPTT")' /\ civ'.cmds["setPTT"].sentAt = now]_vars

FailedWriteLeftPending ==
    /\ last.op = "setPTT" /\ last.err
    /\ civ.cmds["setPTT"].pending
    /\ TimesPending("setPTT", civ.pendingCmds) = 1

\* C39: the status loop never evaluates s.ticker.C after stopPeriodicPrint has
\* set s.ticker to nil, and a stopPeriodicPrint that has stopped the ticker is
\* not left waiting for a loop that is gone
StatusLoopNeverReadsNilTicker ==
    /\ statusLog.loopPc # "panic"
    /\ statusLog.stopPc # "idle" => statusLog.loopPc \in {"top", "select", "tick", "ack"}

=============================================================================
